---- MODULE Spec2Model ----
(***************************************************************************)
(* Model of the newsletter digest pipeline: article extraction and         *)
(* filtering, deduplication, junk filtering, source-preference ranking,    *)
(* summarisation, categorisation and the digest (src/article_processor.py, *)
(* src/app.py, src/summarizer.py, src/digest_generator.py), of URL         *)
(* extraction (src/email_processor.py), of the mark-as-junk request        *)
(* (src/app.py, src/supabase_db.py) and of the threads that run the        *)
(* pipeline.                                                               *)
(*                                                                         *)
(* Python strings are modelled as sequences of one-character strings, so   *)
(* that lower(), split(), strip(), len() and the substring test `in` are   *)
(* computed character by character as the code computes them.              *)
(***************************************************************************)
EXTENDS Integers, Sequences, FiniteSets, TLC

\* pc, input, output and output2 serve the specifications that apply one
\* function to drawn inputs; the other variables are the state of a run of
\* process_and_send_digest: its locals newsletters, articles, unique_articles,
\* source_scores and categorized_articles carry the prefix run_, run_fetched
\* lists the URLs requested, ranker_input and ranker_output the list before
\* and after the vote-learning step; mail is email_processor.mail, calls the
\* calls the run made to its processors, returned its return value, config
\* what get_config reads, threads the threads running process_and_send_digest,
\* run_read_urls the local read_urls
VARIABLES pc, input, output, output2,
          run_newsletters, run_fetched, run_articles, db, run_unique_articles,
          ranker_input, run_source_scores, ranker_output,
          run_categorized_articles, digest_file, sent, last_run_data,
          mail, calls, returned, config, threads, run_read_urls

vars == <<pc, input, output, output2,
          run_newsletters, run_fetched, run_articles, db, run_unique_articles,
          ranker_input, run_source_scores, ranker_output,
          run_categorized_articles, digest_file, sent, last_run_data,
          mail, calls, returned, config, threads, run_read_urls>>

pipeline_vars == <<run_newsletters, run_fetched, run_articles, db,
                   run_unique_articles, ranker_input, run_source_scores,
                   ranker_output, run_categorized_articles, digest_file, sent,
                   last_run_data, mail, calls, returned, config, threads,
                   run_read_urls>>

\* last_run_data with the fields a run writes
RunRecord(status, step, newsletter_count, article_count, error) ==
  [status |-> status, step |-> step, newsletter_count |-> newsletter_count,
   article_count |-> article_count, error |-> error]

\* update_status(status, step)
update_status(record, status, step) ==
  [record EXCEPT !.status = status, !.step = step]

\* The writes of an empty-result return with one status for every cause
halted_same_status(record, status) ==
  [record EXCEPT !.status = "No articles extracted", !.step = 0,
                 !.article_count = 0]

\* The writes of an empty-result return without the reset of article_count
halted_keeps_article_count(record, status) ==
  [record EXCEPT !.status = status, !.step = 0]

\* The writes of an empty-result return
halted(record, status) ==
  [record EXCEPT !.status = status, !.step = 0, !.article_count = 0]

\* EmailProcessor.disconnect in the finally clause: logout when self.mail is
\* set
disconnect(connection) ==
  IF connection = "None" THEN "None" ELSE "logged_out"

\* get_config: the environment is read at every run and no code changes it;
\* a variable that is not set reads as None, one set to nothing as ''
get_config(email_address, email_password) ==
  [email_address |-> email_address, email_password |-> email_password]

\* not value, for a value that is None or a string
falsy(value) == value \in {"None", ""}

\* The configuration test with the password left out
credentials_missing_address_only(configuration) ==
  falsy(configuration.email_address)

\* not config['email_address'] or not config['email_password']
credentials_missing(configuration) ==
  falsy(configuration.email_address) \/ falsy(configuration.email_password)

\* The state of the variables of a run before the run
RunIdle ==
  /\ run_newsletters = <<>>
  /\ run_fetched = <<>>
  /\ run_articles = <<>>
  /\ db = FALSE
  /\ run_unique_articles = <<>>
  /\ ranker_input = <<>>
  /\ run_source_scores = <<>>
  /\ ranker_output = <<>>
  /\ run_categorized_articles = <<>>
  /\ digest_file = <<>>
  /\ sent = <<>>
  /\ last_run_data = RunRecord("Not run yet", 0, 0, 0, "None")
  /\ mail = "None"
  /\ calls = <<>>
  /\ returned = "None"
  /\ threads = <<>>
  /\ run_read_urls = <<>>

\* The state of the pipeline variables where no run takes place
PipelineIdle ==
  /\ RunIdle
  /\ config = get_config("reader@yahoo.com", "app-password")

----------------------------------------------------------------------------
(* String primitives (Python str methods used by the code)                 *)

UPPER == <<"A","B","C","D","E","F","G","H","I","J","K","L","M","N","O","P","Q","R","S","T","U","V","W","X","Y","Z">>
LOWER == <<"a","b","c","d","e","f","g","h","i","j","k","l","m","n","o","p","q","r","s","t","u","v","w","x","y","z">>
DIGITS == <<"0","1","2","3","4","5","6","7","8","9">>

Range(s) == {s[i] : i \in 1..Len(s)}

\* str.lower() on one character
ToLower == [c \in Range(UPPER) |-> LOWER[CHOOSE i \in 1..Len(UPPER) : UPPER[i] = c]]

LowerChar(c) == IF c \in DOMAIN ToLower THEN ToLower[c] ELSE c

\* str.lower()
Lower(s) == [i \in 1..Len(s) |-> LowerChar(s[i])]

WHITESPACE == {" ", "\t", "\n", "\r"}

\* The maximal runs, from position i on and in order of occurrence, of the
\* characters c of s with (c \in chars) = member
RECURSIVE RunsFrom(_, _, _, _)
RunsFrom(s, chars, member, i) ==
  IF \A k \in i..Len(s) : (s[k] \in chars) # member
  THEN <<>>
  ELSE LET b == CHOOSE j \in i..Len(s) :
                  /\ (s[j] \in chars) = member
                  /\ \A k \in i..(j - 1) : (s[k] \in chars) # member
           e == CHOOSE j \in b..Len(s) :
                  /\ (j = Len(s) \/ (s[j + 1] \in chars) # member)
                  /\ \A k \in b..j : (s[k] \in chars) = member
       IN  <<SubSeq(s, b, e)>> \o RunsFrom(s, chars, member, e + 1)

\* str.split(): split on runs of whitespace, no empty pieces
Split(s) == RunsFrom(s, WHITESPACE, FALSE, 1)

\* sub in s  (Python substring test; the empty string is in every string)
Contains(sub, s) ==
  \E i \in 0..(Len(s) - Len(sub)) : \A j \in 1..Len(sub) : s[i + j] = sub[j]

\* s.startswith(prefix)
StartsWith(s, prefix) ==
  /\ Len(prefix) <= Len(s)
  /\ \A j \in 1..Len(prefix) : s[j] = prefix[j]

\* str.strip()
Strip(s) ==
  IF \A i \in 1..Len(s) : s[i] \in WHITESPACE
  THEN <<>>
  ELSE LET first == CHOOSE i \in 1..Len(s) :
                      s[i] \notin WHITESPACE /\ \A k \in 1..(i - 1) : s[k] \in WHITESPACE
           last  == CHOOSE i \in 1..Len(s) :
                      s[i] \notin WHITESPACE /\ \A k \in (i + 1)..Len(s) : s[k] \in WHITESPACE
       IN  SubSeq(s, first, last)

\* s[:n]
Prefix(s, n) == SubSeq(s, 1, IF Len(s) < n THEN Len(s) ELSE n)

\* Sum of f[x] over a finite set
RECURSIVE SumOver(_, _)
SumOver(f, S) ==
  IF S = {} THEN 0
  ELSE LET x == CHOOSE y \in S : TRUE IN f[x] + SumOver(f, S \ {x})

\* Fractions <<numerator, denominator>> stand for the floats the code compares
Zero == <<0, 1>>
GT(r, q) == r[1] * q[2] > q[1] * r[2]

----------------------------------------------------------------------------
(* ArticleProcessor.title_similarity                                        *)

\* stop_words of title_similarity
TITLE_STOP_WORDS ==
  {<<"t","h","e">>,
   <<"a">>,
   <<"a","n">>,
   <<"i","n">>,
   <<"o","n">>,
   <<"a","t">>,
   <<"t","o">>,
   <<"f","o","r">>,
   <<"o","f">>,
   <<"a","n","d">>,
   <<"o","r">>,
   <<"b","u","t">>}


\* Jaccard similarity of the two titles' word sets, as a fraction
title_similarity(title1, title2) ==
  IF title1 = <<>> \/ title2 = <<>>
  THEN Zero
  ELSE LET words1 == Range(Split(Lower(title1))) \ TITLE_STOP_WORDS
           words2 == Range(Split(Lower(title2))) \ TITLE_STOP_WORDS
       IN  IF words1 = {} \/ words2 = {}
           THEN Zero
           ELSE LET intersection == Cardinality(words1 \cap words2)
                    union == Cardinality(words1 \cup words2)
                IN  IF union > 0 THEN <<intersection, union>> ELSE Zero

----------------------------------------------------------------------------
(* ArticleProcessor.calculate_similarity: TfidfVectorizer(stop_words=       *)
(* 'english', max_features=1000) fitted on the two texts, then the cosine   *)
(* of the two rows.                                                         *)

WORD_CHARS == Range(UPPER) \cup Range(LOWER) \cup Range(DIGITS) \cup {"_"}

\* token_pattern (?u)\b\w\w+\b : maximal runs of word characters, length >= 2
Tokens(s) == SelectSeq(RunsFrom(s, WORD_CHARS, TRUE, 1), LAMBDA t : Len(t) >= 2)

\* The library's English stop-word list, restricted to the words short texts
\* of the model can contain
ENGLISH_STOP_WORDS ==
  {<<"a">>,
   <<"a","b","o","u","t">>,
   <<"a","f","t","e","r">>,
   <<"a","g","a","i","n">>,
   <<"a","l","l">>,
   <<"a","l","s","o">>,
   <<"a","n">>,
   <<"a","n","d">>,
   <<"a","r","e">>,
   <<"a","s">>,
   <<"a","t">>,
   <<"b","e">>,
   <<"b","y">>,
   <<"f","o","r">>,
   <<"f","r","o","m">>,
   <<"h","a","s">>,
   <<"h","a","v","e">>,
   <<"i","n">>,
   <<"i","s">>,
   <<"i","t">>,
   <<"i","t","s">>,
   <<"m","o","r","e">>,
   <<"n","o","t">>,
   <<"o","f">>,
   <<"o","n">>,
   <<"o","r">>,
   <<"t","h","a","t">>,
   <<"t","h","e">>,
   <<"t","h","i","s">>,
   <<"t","o">>,
   <<"w","a","s">>,
   <<"w","e","r","e">>,
   <<"w","i","l","l">>,
   <<"w","i","t","h">>}


\* The analyzer: lowercase, tokenize, drop stop words
Analyze(text) ==
  LET toks == Tokens(Lower(text))
  IN  SelectSeq(toks, LAMBDA t : t \notin ENGLISH_STOP_WORDS)

\* Term frequency of term t in a token sequence
TermCount(toks, t) == Cardinality({i \in 1..Len(toks) : toks[i] = t})

\* (max_features=1000 never binds: the texts of the model hold fewer terms.)


\* Smoothed idf over the two documents is ln(3/(1+df)) + 1: exactly 1 for a term
\* of both texts and 1 + ln(3/2) for a term of one text only. Its square,
\* 1.97533..., is carried as the fraction IdfSqNum / IdfSqDen.
IdfSqNum == 160
IdfSqDen == 81

\* Squared L2 norm of one text's tf-idf row, scaled by IdfSqDen
NormSq(toks, other) ==
  LET terms == Range(toks)
      w == [t \in terms |->
              TermCount(toks, t) * TermCount(toks, t) *
              (IF t \in Range(other) THEN IdfSqDen ELSE IdfSqNum)]
  IN  SumOver(w, terms)

\* The square of the cosine similarity, as a fraction (the cosine is never
\* negative). An empty argument returns 0.0 at once; an empty vocabulary makes
\* fit_transform raise, which the bare except turns into 0.0.
calculate_similarity(text1, text2) ==
  IF text1 = <<>> \/ text2 = <<>>
  THEN Zero
  ELSE LET toks1 == Analyze(text1)
           toks2 == Analyze(text2)
           vocabulary == Range(toks1) \cup Range(toks2)
           shared == Range(toks1) \cap Range(toks2)
           prod == [t \in shared |-> TermCount(toks1, t) * TermCount(toks2, t)]
           dot == SumOver(prod, shared)
       IN  IF vocabulary = {}
           THEN Zero
           ELSE IF dot = 0
                THEN Zero
                ELSE <<IdfSqDen * IdfSqDen * dot * dot,
                       NormSq(toks1, toks2) * NormSq(toks2, toks1)>>

\* similarity_threshold, in hundredths (ArticleProcessor(similarity_threshold=0.7))
similarity_threshold == 70

\* content_sim > self.similarity_threshold, on the squared cosine
ExceedsThreshold(content_sim) ==
  GT(content_sim, <<similarity_threshold * similarity_threshold, 10000>>)

----------------------------------------------------------------------------
(* ArticleProcessor.deduplicate_articles                                    *)

\* Variant: only the most recently retained article is compared
is_duplicate_last_only(article, unique_articles, j) ==
  /\ unique_articles # <<>>
  /\ LET last == unique_articles[Len(unique_articles)]
         title_sim == title_similarity(article.title, last.title)
     IN  \/ GT(title_sim, <<6, 10>>)
         \/ /\ GT(title_sim, <<3, 10>>)
            /\ ExceedsThreshold(calculate_similarity(article.text, last.text))

\* Variant: the content channel is never consulted
RECURSIVE is_duplicate_title_only(_, _, _)
is_duplicate_title_only(article, unique_articles, j) ==
  IF j > Len(unique_articles)
  THEN FALSE
  ELSE IF GT(title_similarity(article.title, unique_articles[j].title), <<6, 10>>)
       THEN TRUE
       ELSE is_duplicate_title_only(article, unique_articles, j + 1)

\* The inner loop over unique_articles from index j: TRUE iff it sets
\* is_duplicate before running off the end
RECURSIVE is_duplicate(_, _, _)
is_duplicate(article, unique_articles, j) ==
  IF j > Len(unique_articles)
  THEN FALSE
  ELSE LET title_sim == title_similarity(article.title, unique_articles[j].title)
       IN  IF GT(title_sim, <<6, 10>>)
           THEN TRUE
           ELSE IF /\ GT(title_sim, <<3, 10>>)
                   /\ ExceedsThreshold(calculate_similarity(article.text,
                                                            unique_articles[j].text))
                THEN TRUE
                ELSE is_duplicate(article, unique_articles, j + 1)

\* Variant: each article is compared with the input article just before it
RECURSIVE dedup_loop_adjacent(_, _, _)
dedup_loop_adjacent(articles, i, unique_articles) ==
  IF i > Len(articles)
  THEN unique_articles
  ELSE dedup_loop_adjacent(articles, i + 1,
                  IF i > 1 /\ is_duplicate(articles[i], <<articles[i - 1]>>, 1)
                  THEN unique_articles
                  ELSE Append(unique_articles, articles[i]))

\* Variant: a duplicate replaces the retained articles it matches
RECURSIVE dedup_loop_latest_wins(_, _, _)
dedup_loop_latest_wins(articles, i, unique_articles) ==
  IF i > Len(articles)
  THEN unique_articles
  ELSE dedup_loop_latest_wins(articles, i + 1,
         Append(SelectSeq(unique_articles,
                          LAMBDA u : ~is_duplicate(articles[i], <<u>>, 1)),
                articles[i]))

\* Variant: an article is compared with every article before it, retained
\* or not
RECURSIVE dedup_loop_against_all(_, _, _)
dedup_loop_against_all(articles, i, unique_articles) ==
  IF i > Len(articles)
  THEN unique_articles
  ELSE dedup_loop_against_all(articles, i + 1,
         IF is_duplicate(articles[i], SubSeq(articles, 1, i - 1), 1)
         THEN unique_articles
         ELSE Append(unique_articles, articles[i]))

\* Variant: an article is appended before it is compared, so that it is
\* compared with itself as well
RECURSIVE dedup_loop_self_included(_, _, _)
dedup_loop_self_included(articles, i, unique_articles) ==
  IF i > Len(articles)
  THEN unique_articles
  ELSE dedup_loop_self_included(articles, i + 1,
         IF is_duplicate(articles[i], Append(unique_articles, articles[i]), 1)
         THEN unique_articles
         ELSE Append(unique_articles, articles[i]))

\* The outer loop over articles from index i
RECURSIVE dedup_loop(_, _, _)
dedup_loop(articles, i, unique_articles) ==
  IF i > Len(articles)
  THEN unique_articles
  ELSE dedup_loop(articles, i + 1,
                  IF is_duplicate(articles[i], unique_articles, 1)
                  THEN unique_articles
                  ELSE Append(unique_articles, articles[i]))

deduplicate_articles(articles) ==
  IF articles = <<>> THEN <<>> ELSE dedup_loop(articles, 1, <<>>)

----------------------------------------------------------------------------
(* ArticleProcessor.categorize_articles                                     *)

\* The keys of categories, in declaration order
CATEGORIES ==
  <<"Politics", "Business & Economy", "Technology", "Science & Health",
    "World News", "Sports", "Culture & Entertainment", "Other">>

\* category_keywords, in declaration order (every category but Other)
category_keywords ==
  <<
    \* Politics
    <<<<"e","l","e","c","t","i","o","n">>,
      <<"c","o","n","g","r","e","s","s">>,
      <<"s","e","n","a","t","e">>,
      <<"p","r","e","s","i","d","e","n","t">>,
      <<"g","o","v","e","r","n","o","r">>,
      <<"p","o","l","i","t","i","c","a","l">>,
      <<"v","o","t","e">>,
      <<"c","a","m","p","a","i","g","n">>,
      <<"d","e","m","o","c","r","a","t">>,
      <<"r","e","p","u","b","l","i","c","a","n">>>>,
    \* Business & Economy
    <<<<"m","a","r","k","e","t">>,
      <<"s","t","o","c","k">>,
      <<"e","c","o","n","o","m","y">>,
      <<"b","u","s","i","n","e","s","s">>,
      <<"f","i","n","a","n","c","i","a","l">>,
      <<"c","o","m","p","a","n","y">>,
      <<"r","e","v","e","n","u","e">>,
      <<"p","r","o","f","i","t">>,
      <<"t","r","a","d","e">>,
      <<"e","c","o","n","o","m","i","c">>>>,
    \* Technology
    <<<<"t","e","c","h">>,
      <<"a","i">>,
      <<"s","o","f","t","w","a","r","e">>,
      <<"a","p","p">>,
      <<"d","i","g","i","t","a","l">>,
      <<"c","y","b","e","r">>,
      <<"c","o","m","p","u","t","e","r">>,
      <<"s","t","a","r","t","u","p">>,
      <<"i","n","n","o","v","a","t","i","o","n">>,
      <<"d","a","t","a">>>>,
    \* Science & Health
    <<<<"s","t","u","d","y">>,
      <<"r","e","s","e","a","r","c","h">>,
      <<"h","e","a","l","t","h">>,
      <<"m","e","d","i","c","a","l">>,
      <<"s","c","i","e","n","c","e">>,
      <<"c","l","i","m","a","t","e">>,
      <<"d","i","s","e","a","s","e">>,
      <<"v","a","c","c","i","n","e">>,
      <<"t","r","e","a","t","m","e","n","t">>,
      <<"e","n","v","i","r","o","n","m","e","n","t">>>>,
    \* World News
    <<<<"i","n","t","e","r","n","a","t","i","o","n","a","l">>,
      <<"g","l","o","b","a","l">>,
      <<"c","o","u","n","t","r","y">>,
      <<"n","a","t","i","o","n">>,
      <<"f","o","r","e","i","g","n">>,
      <<"e","m","b","a","s","s","y">>,
      <<"w","a","r">>,
      <<"c","o","n","f","l","i","c","t">>,
      <<"t","r","e","a","t","y">>>>,
    \* Sports
    <<<<"g","a","m","e">>,
      <<"t","e","a","m">>,
      <<"p","l","a","y","e","r">>,
      <<"s","p","o","r","t">>,
      <<"c","h","a","m","p","i","o","n","s","h","i","p">>,
      <<"l","e","a","g","u","e">>,
      <<"s","c","o","r","e">>,
      <<"m","a","t","c","h">>,
      <<"t","o","u","r","n","a","m","e","n","t">>>>,
    \* Culture & Entertainment
    <<<<"f","i","l","m">>,
      <<"m","o","v","i","e">>,
      <<"m","u","s","i","c">>,
      <<"a","r","t">>,
      <<"b","o","o","k">>,
      <<"c","u","l","t","u","r","e">>,
      <<"e","n","t","e","r","t","a","i","n","m","e","n","t">>,
      <<"c","e","l","e","b","r","i","t","y">>,
      <<"s","h","o","w">>,
      <<"t","h","e","a","t","e","r">>>>
  >>

\* The string the keywords are looked up in
text_to_check(article) ==
  Lower(article.title \o <<" ">> \o Prefix(article.text, 500))

\* sum(1 for keyword in keywords if keyword in text_to_check)
keyword_score(keywords, text) ==
  Cardinality({k \in 1..Len(keywords) : Contains(keywords[k], text)})

\* Variant: a later category replaces the best one on an equal score
RECURSIVE best_category_from_last_wins(_, _, _, _)
best_category_from_last_wins(text, c, max_score, best_category) ==
  IF c > Len(category_keywords)
  THEN <<max_score, best_category>>
  ELSE LET score == keyword_score(category_keywords[c], text)
       IN  IF score >= max_score
           THEN best_category_from_last_wins(text, c + 1, score, CATEGORIES[c])
           ELSE best_category_from_last_wins(text, c + 1, max_score, best_category)

\* The scan over category_keywords from index c on, carrying max_score and
\* best_category; the result is the final <<max_score, best_category>>
RECURSIVE best_category_from(_, _, _, _)
best_category_from(text, c, max_score, best_category) ==
  IF c > Len(category_keywords)
  THEN <<max_score, best_category>>
  ELSE LET score == keyword_score(category_keywords[c], text)
       IN  IF score > max_score
           THEN best_category_from(text, c + 1, score, CATEGORIES[c])
           ELSE best_category_from(text, c + 1, max_score, best_category)

\* The bucket one article is appended to
assigned_category(article) ==
  LET best == best_category_from(text_to_check(article), 1, 0, "Other")
  IN  IF best[1] > 0 THEN best[2] ELSE "Other"

\* Variant: an article without any keyword is appended to no bucket
RECURSIVE categorize_loop_skip_unmatched(_, _, _)
categorize_loop_skip_unmatched(articles, i, categories) ==
  IF i > Len(articles)
  THEN categories
  ELSE categorize_loop_skip_unmatched(articles, i + 1,
         IF assigned_category(articles[i]) = "Other"
         THEN categories
         ELSE [categories EXCEPT ![assigned_category(articles[i])] =
                                   Append(@, articles[i])])

\* Variant: an article is put at the front of its bucket
RECURSIVE categorize_loop_prepend(_, _, _)
categorize_loop_prepend(articles, i, categories) ==
  IF i > Len(articles)
  THEN categories
  ELSE categorize_loop_prepend(articles, i + 1,
         [categories EXCEPT ![assigned_category(articles[i])] =
                               <<articles[i]>> \o @])

\* The loop over articles from index i on, appending each to its bucket
RECURSIVE categorize_loop(_, _, _)
categorize_loop(articles, i, categories) ==
  IF i > Len(articles)
  THEN categories
  ELSE categorize_loop(articles, i + 1,
         [categories EXCEPT ![assigned_category(articles[i])] =
                               Append(@, articles[i])])

\* The mapping returned: the non-empty buckets, in declaration order (the order
\* of the keys of the returned dict)
categorize_articles(articles) ==
  LET categories == categorize_loop(articles, 1, [c \in Range(CATEGORIES) |-> <<>>])
      kept == SelectSeq(CATEGORIES, LAMBDA c : categories[c] # <<>>)
  IN  [n \in 1..Len(kept) |-> [category |-> kept[n], articles |-> categories[kept[n]]]]

----------------------------------------------------------------------------
(* Titles, texts and articles from which the inputs are drawn             *)

\* 'Fed Raises Interest Rates Again'
FedTitle1 == <<"F","e","d"," ","R","a","i","s","e","s"," ","I","n","t","e","r","e","s","t"," ","R","a","t","e","s"," ","A","g","a","i","n">>

\* 'Federal Reserve Raises Interest Rates'
FedTitle2 == <<"F","e","d","e","r","a","l"," ","R","e","s","e","r","v","e"," ","R","a","i","s","e","s"," ","I","n","t","e","r","e","s","t"," ","R","a","t","e","s">>

\* 'Fed Raises Interest Rates'
FedTitle3 == <<"F","e","d"," ","R","a","i","s","e","s"," ","I","n","t","e","r","e","s","t"," ","R","a","t","e","s">>

\* 'The Fed Raises Rates'
FedTitle4 == <<"T","h","e"," ","F","e","d"," ","R","a","i","s","e","s"," ","R","a","t","e","s">>

\* 'FED RAISES RATES'
FedTitleUpper == <<"F","E","D"," ","R","A","I","S","E","S"," ","R","A","T","E","S">>

\* 'Rates rise as inflation persists'
TextInflation == <<"R","a","t","e","s"," ","r","i","s","e"," ","a","s"," ","i","n","f","l","a","t","i","o","n"," ","p","e","r","s","i","s","t","s">>

\* 'Rates rise again as inflation persists today'
TextInflationToday == <<"R","a","t","e","s"," ","r","i","s","e"," ","a","g","a","i","n"," ","a","s"," ","i","n","f","l","a","t","i","o","n"," ","p","e","r","s","i","s","t","s"," ","t","o","d","a","y">>

\* 'Markets fall sharply'
TextMarkets == <<"M","a","r","k","e","t","s"," ","f","a","l","l"," ","s","h","a","r","p","l","y">>

\* 'Rates rise sharply'
TextRatesSharply == <<"R","a","t","e","s"," ","r","i","s","e"," ","s","h","a","r","p","l","y">>

\* 'as the'
TextStopWords == <<"a","s"," ","t","h","e">>

\* 'Daily Brief <brief@daily.com>'
SenderDaily == <<"D","a","i","l","y"," ","B","r","i","e","f"," ","<","b","r","i","e","f","@","d","a","i","l","y",".","c","o","m",">">>

\* 'Morning edition'
SubjectDaily == <<"M","o","r","n","i","n","g"," ","e","d","i","t","i","o","n">>


\* An article record as extract_article_content creates it and
\* extract_articles_from_newsletters tags it (the fields authors, publish_date
\* and top_image are written once with fixed values and never read)
Article(url, title, text, sender, subject) ==
  [url |-> url, title |-> title, text |-> text, extraction_success |-> TRUE,
   newsletter_sender |-> sender, newsletter_subject |-> subject]

DedupArticle1 == Article(<<"h","t","t","p","s",":","/","/","n","e","w","s",".","e","x","a","m","p","l","e","/","p","1">>, FedTitle1, TextInflation, SenderDaily, SubjectDaily)

DedupArticle2 == Article(<<"h","t","t","p","s",":","/","/","n","e","w","s",".","e","x","a","m","p","l","e","/","p","2">>, FedTitle2, TextInflationToday, SenderDaily, SubjectDaily)

DedupArticle3 == Article(<<"h","t","t","p","s",":","/","/","n","e","w","s",".","e","x","a","m","p","l","e","/","p","3">>, FedTitle2, TextMarkets, SenderDaily, SubjectDaily)

DedupArticle4 == Article(<<"h","t","t","p","s",":","/","/","n","e","w","s",".","e","x","a","m","p","l","e","/","p","4">>, FedTitle3, TextMarkets, SenderDaily, SubjectDaily)

DedupArticle5 == Article(<<"h","t","t","p","s",":","/","/","n","e","w","s",".","e","x","a","m","p","l","e","/","p","5">>, FedTitle4, TextRatesSharply, SenderDaily, SubjectDaily)

DedupArticle6 == Article(<<"h","t","t","p","s",":","/","/","n","e","w","s",".","e","x","a","m","p","l","e","/","p","6">>, <<>>, TextInflation, SenderDaily, SubjectDaily)

DedupArticle7 == Article(<<"h","t","t","p","s",":","/","/","n","e","w","s",".","e","x","a","m","p","l","e","/","p","7">>, FedTitle1, <<>>, SenderDaily, SubjectDaily)

DedupArticle8 == Article(<<"h","t","t","p","s",":","/","/","n","e","w","s",".","e","x","a","m","p","l","e","/","p","8">>, FedTitleUpper, TextStopWords, SenderDaily, SubjectDaily)

DedupPool ==
  {DedupArticle1,
   DedupArticle2,
   DedupArticle3,
   DedupArticle4,
   DedupArticle5,
   DedupArticle6,
   DedupArticle7,
   DedupArticle8}


\* Longest article list drawn as input of a function under check
MaxArticles == 3

SeqsUpTo(S, n) == UNION {[1..k -> S] : k \in 0..n}

----------------------------------------------------------------------------
(* deduplicate_articles applied to a drawn list, then to its own output    *)

InitDedup ==
  /\ pc = "start"
  /\ input \in SeqsUpTo(DedupPool, MaxArticles)
  /\ output = <<>>
  /\ output2 = <<>>
  /\ PipelineIdle

Deduplicate ==
  /\ pc = "start"
  /\ output' = deduplicate_articles(input)
  /\ pc' = "deduped"
  /\ UNCHANGED <<input, output2>>
  /\ UNCHANGED pipeline_vars

DeduplicateAgain ==
  /\ pc = "deduped"
  /\ output2' = deduplicate_articles(output)
  /\ pc' = "rededuped"
  /\ UNCHANGED <<input, output>>
  /\ UNCHANGED pipeline_vars

NextDedup == Deduplicate \/ DeduplicateAgain

SpecDedup == InitDedup /\ [][NextDedup]_vars

----------------------------------------------------------------------------
(* Properties of deduplicate_articles                                      *)

\* The duplicate test between two articles: title similarity above 0.6, or
\* above 0.3 together with content similarity above the threshold
IsDup(a, b) ==
  LET title_sim == title_similarity(a.title, b.title)
  IN  \/ GT(title_sim, <<6, 10>>)
      \/ /\ GT(title_sim, <<3, 10>>)
         /\ ExceedsThreshold(calculate_similarity(a.text, b.text))

\* out is a subsequence of in: its elements occur in in, in the same order
RECURSIVE IsSubseqFrom(_, _, _, _)
IsSubseqFrom(out, i, in, j) ==
  IF i > Len(out) THEN TRUE
  ELSE IF j > Len(in) THEN FALSE
  ELSE IF out[i] = in[j] THEN IsSubseqFrom(out, i + 1, in, j + 1)
  ELSE IsSubseqFrom(out, i, in, j + 1)

IsSubseq(out, in) == IsSubseqFrom(out, 1, in, 1)

NoRepeats(s) == \A i, j \in 1..Len(s) : i # j => s[i] # s[j]

\* C1: in the list returned by deduplicate_articles no two articles at
\* different positions have title similarity above 0.6, and no two have title
\* similarity above 0.3 together with content similarity above the threshold.
C1_NoDuplicatesSurvive ==
  pc = "deduped" =>
    \A i, j \in 1..Len(output) :
      i # j =>
        LET title_sim == title_similarity(output[i].title, output[j].title)
            content_sim == calculate_similarity(output[i].text, output[j].text)
        IN  /\ ~GT(title_sim, <<6, 10>>)
            /\ ~(GT(title_sim, <<3, 10>>) /\ ExceedsThreshold(content_sim))

\* A run in which both channels removed something and two articles survive
C1_Witness ==
  /\ pc = "deduped"
  /\ Len(output) >= 2
  /\ \E k \in 1..Len(input) :
       /\ input[k] \notin Range(output)
       /\ \E u \in Range(output) :
            ~GT(title_similarity(input[k].title, u.title), <<6, 10>>) /\ IsDup(input[k], u)

\* C2: deduplicating the output of deduplicate_articles returns that output
\* unchanged (same articles, same order).
C2_Idempotent ==
  pc = "rededuped" => output2 = output

\* A second pass over an output that is shorter than the input and still has
\* two articles with related titles
C2_Witness ==
  /\ pc = "rededuped"
  /\ Len(output) < Len(input)
  /\ \E i, j \in 1..Len(output) :
       i # j /\ GT(title_similarity(output[i].title, output[j].title), <<3, 10>>)

\* C3 as stated: the output is a subsequence of the input and, of two articles
\* that are duplicates of each other, the later one is never the one kept.
C3_FirstOfEveryGroupKept ==
  pc = "deduped" =>
    /\ IsSubseq(output, input)
    /\ (input # <<>> => output # <<>> /\ output[1] = input[1])
    /\ NoRepeats(input) =>
         \A i, j \in 1..Len(input) :
           i < j /\ IsDup(input[i], input[j]) => input[j] \notin Range(output)

\* C3 amended: the output is a subsequence of the input in the same relative
\* order, the first input article is always kept, and every article that is
\* dropped is a duplicate of a kept article that occurs before it in the input.
C3_DroppedHasEarlierKept ==
  pc = "deduped" =>
    /\ IsSubseq(output, input)
    /\ (input # <<>> => output # <<>> /\ output[1] = input[1])
    /\ \A j \in 1..Len(input) :
         input[j] \notin Range(output) =>
           \E i \in 1..(j - 1) :
             input[i] \in Range(output) /\ IsDup(input[i], input[j])

\* The later of two mutual duplicates is kept because the earlier one was
\* itself dropped as a duplicate of a third article
C3_Witness ==
  /\ pc = "deduped"
  /\ NoRepeats(input)
  /\ \E i, j \in 1..Len(input) :
       /\ i < j
       /\ IsDup(input[i], input[j])
       /\ input[i] \notin Range(output)
       /\ input[j] \in Range(output)

\* The scenario of C4: the two Fed headlines, in this order, with any bodies
FedScenario ==
  /\ pc = "deduped"
  /\ Len(input) = 2
  /\ input[1].title = FedTitle1
  /\ input[2].title = FedTitle2

\* C4 as stated: the similarity of the two Fed titles exceeds 0.6 and the
\* second article is dropped whatever the two body texts are.
C4_FedDroppedOnTitleAlone ==
  FedScenario =>
    /\ GT(title_similarity(FedTitle1, FedTitle2), <<6, 10>>)
    /\ output = <<input[1]>>

\* C4 amended: the similarity of the two Fed titles is 3/7, above 0.3 and not
\* above 0.6, so the second article is dropped exactly when the content
\* similarity of the two bodies exceeds the threshold, and kept otherwise.
C4_FedDecidedByContent ==
  FedScenario =>
    /\ title_similarity(FedTitle1, FedTitle2) = <<3, 7>>
    /\ IF ExceedsThreshold(calculate_similarity(input[1].text, input[2].text))
       THEN output = <<input[1]>>
       ELSE output = input

\* The two Fed articles with unrelated bodies: both are kept
C4_Witness ==
  /\ FedScenario
  /\ ~ExceedsThreshold(calculate_similarity(input[1].text, input[2].text))
  /\ output = input

----------------------------------------------------------------------------
(* Articles for categorize_articles                                        *)

\* s repeated n times
RECURSIVE Repeat(_, _)
Repeat(s, n) == IF n = 0 THEN <<>> ELSE s \o Repeat(s, n - 1)

\* A body of 516 characters: 495 characters without any keyword, then 'match'
\* (ending at character 500), then ' election senate'
LongText ==
  Repeat(<<"l","o","r","e","m"," ","i","p","s","u","m"," ">>, 41) \o <<"x","y","z">>
    \o <<"m","a","t","c","h">> \o <<" ","e","l","e","c","t","i","o","n"," ","s","e","n","a","t","e">>

\* 'Election Shakes The Market Today' / 'All was calm'
CatTie ==
  Article(<<"h","t","t","p","s",":","/","/","n","e","w","s",".","e","x","a","m","p","l","e","/","c","1">>,
          <<"E","l","e","c","t","i","o","n"," ","S","h","a","k","e","s"," ","T","h","e"," ","M","a","r","k","e","t"," ","T","o","d","a","y">>,
          <<"A","l","l"," ","w","a","s"," ","c","a","l","m">>,
          SenderDaily, SubjectDaily)

\* 'Stock Market Rally Continues' / 'The election changed little'
CatBusiness ==
  Article(<<"h","t","t","p","s",":","/","/","n","e","w","s",".","e","x","a","m","p","l","e","/","c","2">>,
          <<"S","t","o","c","k"," ","M","a","r","k","e","t"," ","R","a","l","l","y"," ","C","o","n","t","i","n","u","e","s">>,
          <<"T","h","e"," ","e","l","e","c","t","i","o","n"," ","c","h","a","n","g","e","d"," ","l","i","t","t","l","e">>,
          SenderDaily, SubjectDaily)

\* 'Quiet Day In The Village' / 'All was calm'
CatQuiet ==
  Article(<<"h","t","t","p","s",":","/","/","n","e","w","s",".","e","x","a","m","p","l","e","/","c","3">>,
          <<"Q","u","i","e","t"," ","D","a","y"," ","I","n"," ","T","h","e"," ","V","i","l","l","a","g","e">>,
          <<"A","l","l"," ","w","a","s"," ","c","a","l","m">>,
          SenderDaily, SubjectDaily)

\* 'Chairman Said Little On Friday' / 'He left'
CatSubstring ==
  Article(<<"h","t","t","p","s",":","/","/","n","e","w","s",".","e","x","a","m","p","l","e","/","c","4">>,
          <<"C","h","a","i","r","m","a","n"," ","S","a","i","d"," ","L","i","t","t","l","e"," ","O","n"," ","F","r","i","d","a","y">>,
          <<"H","e"," ","l","e","f","t">>,
          SenderDaily, SubjectDaily)

\* 'ELECTION RESULTS ARE IN' / 'COUNTING ENDED'
CatUpper ==
  Article(<<"h","t","t","p","s",":","/","/","n","e","w","s",".","e","x","a","m","p","l","e","/","c","5">>,
          <<"E","L","E","C","T","I","O","N"," ","R","E","S","U","L","T","S"," ","A","R","E"," ","I","N">>,
          <<"C","O","U","N","T","I","N","G"," ","E","N","D","E","D">>,
          SenderDaily, SubjectDaily)

\* 'Weekly Notes On The Show' / LongText
CatLong ==
  Article(<<"h","t","t","p","s",":","/","/","n","e","w","s",".","e","x","a","m","p","l","e","/","c","6">>,
          <<"W","e","e","k","l","y"," ","N","o","t","e","s"," ","O","n"," ","T","h","e"," ","S","h","o","w">>,
          LongText,
          SenderDaily, SubjectDaily)

\* 'Tonight There Is A Big Sho' / 'w for everyone'
CatJunction ==
  Article(<<"h","t","t","p","s",":","/","/","n","e","w","s",".","e","x","a","m","p","l","e","/","c","7">>,
          <<"T","o","n","i","g","h","t"," ","T","h","e","r","e"," ","I","s"," ","A"," ","B","i","g"," ","S","h","o">>,
          <<"w"," ","f","o","r"," ","e","v","e","r","y","o","n","e">>,
          SenderDaily, SubjectDaily)

\* 'Stewart Starts Slowly' / 'He left'
CatLateTie ==
  Article(<<"h","t","t","p","s",":","/","/","n","e","w","s",".","e","x","a","m","p","l","e","/","c","8">>,
          <<"S","t","e","w","a","r","t"," ","S","t","a","r","t","s"," ","S","l","o","w","l","y">>,
          <<"H","e"," ","l","e","f","t">>,
          SenderDaily, SubjectDaily)

\* Longest article list drawn as input of categorize_articles
MaxCategorized == 2

CategorizePool ==
  {CatTie, CatBusiness, CatQuiet, CatSubstring, CatUpper, CatLong, CatJunction, CatLateTie}


----------------------------------------------------------------------------
(* categorize_articles applied to a drawn list                             *)

InitCategorize ==
  /\ pc = "start"
  /\ input \in SeqsUpTo(CategorizePool, MaxCategorized)
  /\ output = <<>>
  /\ output2 = <<>>
  /\ PipelineIdle

Categorize ==
  /\ pc = "start"
  /\ output' = categorize_articles(input)
  /\ pc' = "categorized"
  /\ UNCHANGED <<input, output2>>
  /\ UNCHANGED pipeline_vars

NextCategorize == Categorize

SpecCategorize == InitCategorize /\ [][NextCategorize]_vars

----------------------------------------------------------------------------
(* Properties of categorize_articles                                       *)

Count(s, a) == Cardinality({i \in 1..Len(s) : s[i] = a})

\* C6: every input article appears in exactly one bucket of the returned
\* mapping, the buckets together hold exactly the input articles, every key is
\* one of the eight declared category names, and no returned bucket is empty.
C6_TotalPartition ==
  pc = "categorized" =>
    /\ \A n \in 1..Len(output) :
         /\ output[n].category \in Range(CATEGORIES)
         /\ output[n].articles # <<>>
         /\ \A m \in 1..Len(output) : m # n => output[m].category # output[n].category
    /\ \A i \in 1..Len(input) :
         Cardinality({n \in 1..Len(output) : input[i] \in Range(output[n].articles)}) = 1
    /\ \A n \in 1..Len(output) : Range(output[n].articles) \subseteq Range(input)
    /\ \A a \in Range(input) :
         Count(input, a) =
           SumOver([n \in 1..Len(output) |-> Count(output[n].articles, a)], 1..Len(output))

\* Two articles in two buckets, one of them Other
C6_Witness ==
  /\ pc = "categorized"
  /\ Len(input) = 2
  /\ Len(output) = 2
  /\ \E n \in 1..Len(output) : output[n].category = "Other"

\* The number of keywords of category c that are substrings of the lowercased
\* title, a space and the first 500 characters of the text
KeywordCount(c, a) ==
  LET scanned == Lower(a.title \o <<" ">> \o
                       SubSeq(a.text, 1, IF Len(a.text) < 500 THEN Len(a.text) ELSE 500))
  IN  Cardinality({k \in 1..Len(category_keywords[c]) :
                     Contains(category_keywords[c][k], scanned)})

\* The category the claim assigns: Other when every count is 0, otherwise the
\* first declared category whose count is the maximum
ExpectedCategory(a) ==
  LET counts == [c \in 1..Len(category_keywords) |-> KeywordCount(c, a)]
      highest == CHOOSE m \in Range(counts) : \A c \in 1..Len(counts) : counts[c] <= m
  IN  IF highest = 0
      THEN "Other"
      ELSE CATEGORIES[CHOOSE c \in 1..Len(counts) :
                        counts[c] = highest /\ \A d \in 1..(c - 1) : counts[d] < highest]

\* C7: each article is in the bucket of the category with the highest
\* keyword-substring count over lowercased title + first 500 characters of
\* text; the first declared category wins a tie; an article with no keyword at
\* all is in Other.
C7_HighestScoreFirstDeclaredWins ==
  pc = "categorized" =>
    \A i \in 1..Len(input) :
      \E n \in 1..Len(output) :
        /\ output[n].category = ExpectedCategory(input[i])
        /\ input[i] \in Range(output[n].articles)

\* An article without any keyword, and an article of more than 500 characters
\* whose counted keywords tie two categories, the first declared one winning
C7_Witness ==
  /\ pc = "categorized"
  /\ \E a \in Range(input) : ExpectedCategory(a) = "Other"
  /\ \E a \in Range(input) :
       /\ Len(a.text) > 500
       /\ \E c, d \in 1..Len(category_keywords) :
            /\ c < d
            /\ KeywordCount(c, a) = KeywordCount(d, a)
            /\ KeywordCount(c, a) > 0
            /\ ExpectedCategory(a) = CATEGORIES[c]
            /\ \E n \in 1..Len(output) :
                 output[n].category = CATEGORIES[c] /\ a \in Range(output[n].articles)

----------------------------------------------------------------------------
(* ArticleProcessor.extract_article_content and                            *)
(* ArticleProcessor.extract_articles_from_newsletters                      *)

\* sep.join(parts)
RECURSIVE Join(_, _)
Join(parts, sep) ==
  IF parts = <<>> THEN <<>>
  ELSE IF Len(parts) = 1 THEN parts[1]
  ELSE parts[1] \o sep \o Join(Tail(parts), sep)

\* The loop over article_tags: the joined paragraphs of each matching
\* container are appended until more than 200 characters were collected
RECURSIVE text_content_from(_, _, _)
text_content_from(article_tags, i, text_content) ==
  IF i > Len(article_tags) THEN text_content
  ELSE LET joined == text_content \o Join(article_tags[i], <<" ">>)
       IN  IF Len(joined) > 200 THEN joined
           ELSE text_content_from(article_tags, i + 1, joined)

\* A response is what requests.get and the parser deliver for a URL.
\* raises tells where the try block raises: "request" when requests.get or
\* the parser raises, "content" when the collection of the paragraphs raises
\* after the title was stored, "nowhere" otherwise; title_tag holds the text
\* of the <title> element when there is one; article_tags the paragraph
\* texts of each container whose class matches article|content|post|story
extract_article_content(url, response) ==
  LET article_data == [url |-> url, title |-> <<>>, text |-> <<>>,
                       extraction_success |-> FALSE]
      title == IF response.title_tag # <<>> THEN Strip(response.title_tag[1])
               ELSE <<>>
      text_content == text_content_from(response.article_tags, 1, <<>>)
  IN  IF response.raises = "request" THEN article_data
      ELSE IF response.raises = "content"
      THEN [article_data EXCEPT !.title = title]
      ELSE [article_data EXCEPT !.title = title,
                                !.text = Strip(text_content),
                                !.extraction_success = text_content # <<>>]

junk_title_patterns ==
  <<
    \* 'contact us'
    <<"c","o","n","t","a","c","t"," ","u","s">>,
    \* 'privacy policy'
    <<"p","r","i","v","a","c","y"," ","p","o","l","i","c","y">>,
    \* 'cookie notice'
    <<"c","o","o","k","i","e"," ","n","o","t","i","c","e">>,
    \* 'cookie policy'
    <<"c","o","o","k","i","e"," ","p","o","l","i","c","y">>,
    \* 'sign in'
    <<"s","i","g","n"," ","i","n">>,
    \* 'log in'
    <<"l","o","g"," ","i","n">>,
    \* 'login'
    <<"l","o","g","i","n">>,
    \* 'register'
    <<"r","e","g","i","s","t","e","r">>,
    \* 'registration'
    <<"r","e","g","i","s","t","r","a","t","i","o","n">>,
    \* 'linkedin'
    <<"l","i","n","k","e","d","i","n">>,
    \* 'facebook'
    <<"f","a","c","e","b","o","o","k">>,
    \* 'instagram'
    <<"i","n","s","t","a","g","r","a","m">>,
    \* 'twitter'
    <<"t","w","i","t","t","e","r">>,
    \* 'youtube'
    <<"y","o","u","t","u","b","e">>,
    \* 'app store'
    <<"a","p","p"," ","s","t","o","r","e">>,
    \* 'google play'
    <<"g","o","o","g","l","e"," ","p","l","a","y">>,
    \* 'terms of use'
    <<"t","e","r","m","s"," ","o","f"," ","u","s","e">>,
    \* 'terms and conditions'
    <<"t","e","r","m","s"," ","a","n","d"," ","c","o","n","d","i","t","i","o","n","s">>,
    \* 'subscribe'
    <<"s","u","b","s","c","r","i","b","e">>,
    \* 'unsubscribe'
    <<"u","n","s","u","b","s","c","r","i","b","e">>,
    \* 'join now'
    <<"j","o","i","n"," ","n","o","w">>,
    \* 'newsletter'
    <<"n","e","w","s","l","e","t","t","e","r">>,
    \* 'explore hbr'
    <<"e","x","p","l","o","r","e"," ","h","b","r">>,
    \* 'about hbr'
    <<"a","b","o","u","t"," ","h","b","r">>,
    \* 'follow hbr'
    <<"f","o","l","l","o","w"," ","h","b","r">>,
    \* 'manage my account'
    <<"m","a","n","a","g","e"," ","m","y"," ","a","c","c","o","u","n","t">>,
    \* 'view all'
    <<"v","i","e","w"," ","a","l","l">>,
    \* 'see all'
    <<"s","e","e"," ","a","l","l">>,
    \* 'browse'
    <<"b","r","o","w","s","e">>,
    \* 'home page'
    <<"h","o","m","e"," ","p","a","g","e">>,
    \* 'advertising'
    <<"a","d","v","e","r","t","i","s","i","n","g">>,
    \* 'partnerships'
    <<"p","a","r","t","n","e","r","s","h","i","p","s">>,
    \* 'solutions for'
    <<"s","o","l","u","t","i","o","n","s"," ","f","o","r">>,
    \* 'data & visuals'
    <<"d","a","t","a"," ","&"," ","v","i","s","u","a","l","s">>
  >>

\* is_article without the test of the title against junk_title_patterns
is_article_length_only(article_data) ==
  /\ article_data.extraction_success
  /\ ~(Len(article_data.title) < 15)

\* The three tests an extracted record passes before it is appended
is_article(article_data) ==
  /\ article_data.extraction_success
  /\ ~\E p \in 1..Len(junk_title_patterns) :
        Contains(junk_title_patterns[p], Lower(article_data.title))
  /\ ~(Len(article_data.title) < 15)

\* article_data with the newsletter metadata added
tagged(article_data, newsletter) ==
  [url |-> article_data.url, title |-> article_data.title,
   text |-> article_data.text,
   extraction_success |-> article_data.extraction_success,
   newsletter_sender |-> newsletter.sender,
   newsletter_subject |-> newsletter.subject]

\* The loops without the seen_urls test: every listed URL is fetched
RECURSIVE extract_loop_refetch(_, _, _, _, _, _, _)
extract_loop_refetch(newsletters, n, u, articles, seen_urls, fetched, web) ==
  IF n > Len(newsletters) THEN [articles |-> articles, fetched |-> fetched]
  ELSE IF u > Len(newsletters[n].urls)
  THEN extract_loop_refetch(newsletters, n + 1, 1, articles, seen_urls, fetched, web)
  ELSE LET url == newsletters[n].urls[u]
           article_data == extract_article_content(url, web[url])
       IN  extract_loop_refetch(newsletters, n, u + 1,
                        IF is_article(article_data)
                        THEN Append(articles, tagged(article_data, newsletters[n]))
                        ELSE articles,
                        seen_urls \cup {url}, Append(fetched, url), web)

\* The loops over the newsletters (n) and their URLs (u); fetched records
\* the URLs passed to extract_article_content, in order
RECURSIVE extract_loop(_, _, _, _, _, _, _)
extract_loop(newsletters, n, u, articles, seen_urls, fetched, web) ==
  IF n > Len(newsletters) THEN [articles |-> articles, fetched |-> fetched]
  ELSE IF u > Len(newsletters[n].urls)
  THEN extract_loop(newsletters, n + 1, 1, articles, seen_urls, fetched, web)
  ELSE LET url == newsletters[n].urls[u]
           article_data == extract_article_content(url, web[url])
       IN  IF url \in seen_urls
           THEN extract_loop(newsletters, n, u + 1, articles, seen_urls, fetched, web)
           ELSE extract_loop(newsletters, n, u + 1,
                        IF is_article(article_data)
                        THEN Append(articles, tagged(article_data, newsletters[n]))
                        ELSE articles,
                        seen_urls \cup {url}, Append(fetched, url), web)

extract_articles_from_newsletters(newsletters, web) ==
  extract_loop(newsletters, 1, 1, <<>>, {}, <<>>, web)

----------------------------------------------------------------------------
(* process_and_send_digest: the filtering and ranking steps                *)

\* Step 2.5 with the test turned round
filter_read_inverted(articles, read_urls) ==
  IF read_urls # <<>>
  THEN SelectSeq(articles, LAMBDA a : a.url \in Range(read_urls))
  ELSE articles

\* Step 2.5: articles whose url is in read_urls are removed when the list of
\* read URLs is not empty
filter_read(articles, read_urls) ==
  IF read_urls # <<>>
  THEN SelectSeq(articles, LAMBDA a : a.url \notin Range(read_urls))
  ELSE articles

\* urlparse(url).netloc for a URL of the form scheme://host/path?query#fragment
netloc(url) ==
  IF ~\E i \in 1..(Len(url) - 2) : SubSeq(url, i, i + 2) = <<":", "/", "/">>
  THEN <<>>
  ELSE LET i == CHOOSE k \in 1..(Len(url) - 2) :
                   /\ SubSeq(url, k, k + 2) = <<":", "/", "/">>
                   /\ \A m \in 1..(k - 1) : url[m] # ":"
           rest == SubSeq(url, i + 3, Len(url))
           stops == {k \in 1..Len(rest) : rest[k] \in {"/", "?", "#"}}
       IN  IF stops = {} THEN rest
           ELSE SubSeq(rest, 1, (CHOOSE k \in stops : \A m \in stops : k <= m) - 1)

article_domain(article) ==
  LET domain == Lower(netloc(article.url))
  IN  IF StartsWith(domain, <<"w", "w", "w", ".">>)
      THEN SubSeq(domain, 5, Len(domain)) ELSE domain

\* is_junk with a domain pattern looked up in the whole lowercased URL
is_junk_domain_in_url(article, junk_filters) ==
  \E k \in 1..Len(junk_filters) :
    LET jf == junk_filters[k]
        pattern_type == IF "pattern_type" \in DOMAIN jf THEN jf.pattern_type
                        ELSE "title"
    IN  IF pattern_type = "domain"
        THEN Contains(jf.pattern, Lower(article.url))
        ELSE Contains(jf.pattern, Lower(article.title))

\* A junk filter row is a record with a pattern and, possibly, a
\* pattern_type; a missing pattern_type counts as 'title'
is_junk(article, junk_filters) ==
  \E k \in 1..Len(junk_filters) :
    LET jf == junk_filters[k]
        pattern_type == IF "pattern_type" \in DOMAIN jf THEN jf.pattern_type
                        ELSE "title"
    IN  IF pattern_type = "domain"
        THEN Contains(jf.pattern, article_domain(article))
        ELSE Contains(jf.pattern, Lower(article.title))

\* Step 3.5
filter_junk(unique_articles, junk_filters) ==
  IF junk_filters # <<>>
  THEN SelectSeq(unique_articles, LAMBDA a : ~is_junk(a, junk_filters))
  ELSE unique_articles

\* source_scores is a function from source keys to net votes;
\* source_scores.get(source, 0)
get_source_score(article, source_scores) ==
  LET source == Strip(Lower(article.newsletter_sender))
  IN  IF source \in DOMAIN source_scores THEN source_scores[source] ELSE 0

\* The vote filter with the boundary score admitted
passes_vote_filter_inclusive(article, source_scores) ==
  get_source_score(article, source_scores) >= -3

\* The condition of the list comprehension that drops downvoted sources
passes_vote_filter(article, source_scores) ==
  get_source_score(article, source_scores) > -3

\* An insertion that puts an article in front of the articles of equal score
insert_by_score_before_equal(sorted, article, source_scores) ==
  LET key == get_source_score(article, source_scores)
      ahead == {k \in 1..Len(sorted) :
                  get_source_score(sorted[k], source_scores) > key}
  IN  SubSeq(sorted, 1, Cardinality(ahead)) \o <<article>>
        \o SubSeq(sorted, Cardinality(ahead) + 1, Len(sorted))

\* list.sort(key=get_source_score, reverse=True) is stable: an article goes
\* behind every article already placed whose score is greater or equal
insert_by_score(sorted, article, source_scores) ==
  LET key == get_source_score(article, source_scores)
      ahead == {k \in 1..Len(sorted) :
                  get_source_score(sorted[k], source_scores) >= key}
  IN  SubSeq(sorted, 1, Cardinality(ahead)) \o <<article>>
        \o SubSeq(sorted, Cardinality(ahead) + 1, Len(sorted))

RECURSIVE sort_by_score(_, _, _, _)
sort_by_score(unique_articles, i, sorted, source_scores) ==
  IF i > Len(unique_articles) THEN sorted
  ELSE sort_by_score(unique_articles, i + 1,
                     insert_by_score(sorted, unique_articles[i], source_scores),
                     source_scores)

\* Step 3.6 for a non-empty score mapping
apply_vote_learning(unique_articles, source_scores) ==
  sort_by_score(SelectSeq(unique_articles,
                          LAMBDA a : passes_vote_filter(a, source_scores)),
                1, <<>>, source_scores)

----------------------------------------------------------------------------
(* ArticleSummarizer (src/summarizer.py)                                   *)

max_words_per_article == 80

\* s.replace(old, new) for single characters
ReplaceChar(s, old, new) == [i \in 1..Len(s) |-> IF s[i] = old THEN new ELSE s[i]]

\* s.split(sep) for a non-empty separator
RECURSIVE SplitOn(_, _)
SplitOn(s, sep) ==
  LET hits == {i \in 1..(Len(s) - Len(sep) + 1) :
                 SubSeq(s, i, i + Len(sep) - 1) = sep}
  IN  IF hits = {} THEN <<s>>
      ELSE LET i == CHOOSE k \in hits : \A m \in hits : k <= m
           IN  <<SubSeq(s, 1, i - 1)>>
                 \o SplitOn(SubSeq(s, i + Len(sep), Len(s)), sep)

\* The loop that takes the first sentences while the word budget lasts
RECURSIVE take_sentences(_, _, _, _, _)
take_sentences(sentences, i, summary, word_count, max_words) ==
  IF i > Len(sentences) THEN summary
  ELSE LET sentence == Strip(sentences[i])
           sentence_words == Len(Split(sentence))
       IN  IF sentence = <<>>
           THEN take_sentences(sentences, i + 1, summary, word_count, max_words)
           ELSE IF word_count + sentence_words <= max_words
           THEN take_sentences(sentences, i + 1, summary \o sentence \o <<".", " ">>,
                               word_count + sentence_words, max_words)
           ELSE summary

\* ArticleSummarizer._summarize_extractive
summarize_extractive(article, max_words) ==
  IF article.text = <<>> THEN article.title
  ELSE LET sentences == SplitOn(ReplaceChar(article.text, "\n", " "), <<".", " ">>)
           summary == take_sentences(sentences, 1, <<>>, 0, max_words)
       IN  IF summary = <<>>
           THEN Strip(Join(Prefix(Split(article.text), max_words), <<" ">>)
                        \o <<".", ".", ".">>)
           ELSE Strip(summary)

\* ArticleSummarizer._summarize_with_ai: ai_response is what the completion
\* call delivers, a record with ok FALSE when the call raises
summarize_with_ai(article, max_words, ai_response) ==
  IF ai_response.ok THEN Strip(ai_response.content)
  ELSE summarize_extractive(article, max_words)

summarize_article(article, max_words, use_ai, ai_response) ==
  IF use_ai THEN summarize_with_ai(article, max_words, ai_response)
  ELSE summarize_extractive(article, max_words)

\* WithSummary with the text cut to the part the summary was made from
WithSummary_cuts_text(article, summary) ==
  [f \in DOMAIN article \cup {"summary"} |->
     IF f = "summary" THEN summary
     ELSE IF f = "text" THEN Prefix(article.text, 20) ELSE article[f]]

\* article with article['summary'] = summary
WithSummary(article, summary) ==
  [f \in DOMAIN article \cup {"summary"} |->
     IF f = "summary" THEN summary ELSE article[f]]

\* summarize_all_articles without the test 'summary' not in article
summarize_all_articles_overwrites(articles, use_ai, ai_responses) ==
  [i \in 1..Len(articles) |->
     WithSummary(articles[i],
                 summarize_article(articles[i], max_words_per_article,
                                   use_ai, ai_responses[i]))]

\* ai_responses[i] is the response to the call made for the i-th article
summarize_all_articles(articles, use_ai, ai_responses) ==
  [i \in 1..Len(articles) |->
     IF "summary" \in DOMAIN articles[i] THEN articles[i]
     ELSE WithSummary(articles[i],
                      summarize_article(articles[i], max_words_per_article,
                                        use_ai, ai_responses[i]))]

----------------------------------------------------------------------------
(* DigestGenerator.generate_html_digest (src/digest_generator.py)          *)

\* The source name shown for an article: the part of the sender in front of
\* the first '<', stripped, when the sender has one
source_name(article) ==
  LET source == article.newsletter_sender
  IN  IF "<" \in Range(source) THEN Strip(SplitOn(source, <<"<">>)[1]) ELSE source

\* One entry of the digest: the values the template prints for an article
digest_entry(article) ==
  [url |-> article.url, title |-> article.title, source |-> source_name(article),
   summary |-> IF "summary" \in DOMAIN article THEN article.summary
               ELSE Prefix(article.text, 300) \o <<".", ".", ".">>]

\* The digest as a structure: the article total of the header and one
\* section per category, in the order of the mapping
generate_html_digest(categorized_articles) ==
  [total_articles |->
     SumOver([k \in 1..Len(categorized_articles) |->
                Len(categorized_articles[k].articles)],
             1..Len(categorized_articles)),
   sections |->
     [k \in 1..Len(categorized_articles) |->
        [category |-> categorized_articles[k].category,
         count |-> Len(categorized_articles[k].articles),
         entries |-> [i \in 1..Len(categorized_articles[k].articles) |->
                        digest_entry(categorized_articles[k].articles[i])]]]]

----------------------------------------------------------------------------
(* The mailbox, the web and the persistence data of a pipeline run         *)

\* 'https://www.nytimes.com/2024/fed'
UrlFed == <<"h","t","t","p","s",":","/","/","w","w","w",".","n","y","t","i","m","e","s",".","c","o","m","/","2","0","2","4","/","f","e","d">>
\* 'https://techcrunch.com/2024/fed'
UrlFedCopy == <<"h","t","t","p","s",":","/","/","t","e","c","h","c","r","u","n","c","h",".","c","o","m","/","2","0","2","4","/","f","e","d">>
\* 'https://www.axios.com/election'
UrlElection == <<"h","t","t","p","s",":","/","/","w","w","w",".","a","x","i","o","s",".","c","o","m","/","e","l","e","c","t","i","o","n">>
\* 'https://www.axios.com/senate'
UrlSenate == <<"h","t","t","p","s",":","/","/","w","w","w",".","a","x","i","o","s",".","c","o","m","/","s","e","n","a","t","e">>
\* 'https://dead.example/gone'
UrlDead == <<"h","t","t","p","s",":","/","/","d","e","a","d",".","e","x","a","m","p","l","e","/","g","o","n","e">>
\* 'https://www.axios.com/welcome'
UrlWelcome == <<"h","t","t","p","s",":","/","/","w","w","w",".","a","x","i","o","s",".","c","o","m","/","w","e","l","c","o","m","e">>

Page(title, paragraphs) ==
  [raises |-> "nowhere", title_tag |-> <<title>>, article_tags |-> <<paragraphs>>]

Unreachable == [raises |-> "request", title_tag |-> <<>>, article_tags |-> <<>>]

\* The pages behind the URLs; the title of the first carries surrounding
\* whitespace, one URL cannot be fetched, the last is a subscription page
Web ==
  (UrlFed :> Page(<<" ","F","e","d"," ","R","a","i","s","e","s"," ","I","n","t","e","r","e","s","t"," ","R","a","t","e","s"," ","A","g","a","i","n"," ">>,
                  <<<<"R","a","t","e","s"," ","r","i","s","e"," ","a","s"," ","i","n","f","l","a","t","i","o","n"," ","p","e","r","s","i","s","t","s",".">>, <<"C","o","n","g","r","e","s","s"," ","w","a","i","t","s",".">>>>))
  @@ (UrlFedCopy :> Page(<<"F","e","d"," ","R","a","i","s","e","s"," ","I","n","t","e","r","e","s","t"," ","R","a","t","e","s">>, <<<<"M","a","r","k","e","t","s"," ","f","a","l","l"," ","s","h","a","r","p","l","y">>>>))
  @@ (UrlElection :> Page(<<"E","l","e","c","t","i","o","n"," ","S","h","a","k","e","s"," ","T","h","e"," ","M","a","r","k","e","t"," ","T","o","d","a","y">>, <<<<"A","l","l"," ","w","a","s"," ","c","a","l","m">>>>))
  @@ (UrlSenate :> Page(<<"S","e","n","a","t","e"," ","V","o","t","e"," ","D","e","l","a","y","e","d"," ","U","n","t","i","l"," ","F","r","i","d","a","y">>,
                        <<<<"L","a","w","m","a","k","e","r","s"," ","l","e","f","t"," ","t","h","e"," ","r","o","o","m">>>>))
  @@ (UrlDead :> Unreachable)
  @@ (UrlWelcome :> Page(<<"S","u","b","s","c","r","i","b","e"," ","T","o"," ","O","u","r"," ","N","e","w","s","l","e","t","t","e","r">>, <<<<"E","n","t","e","r"," ","y","o","u","r"," ","e","m","a","i","l">>>>))

\* The web as a run may find it: every page served, or the first one failing
WebChoices == {Web, [Web EXCEPT ![UrlFed] = Unreachable]}

\* 'Newsletter@NYT.com '
SenderNYT == <<"N","e","w","s","l","e","t","t","e","r","@","N","Y","T",".","c","o","m"," ">>
\* 'Axios AM <newsletter@axios.com>'
SenderAxios == <<"A","x","i","o","s"," ","A","M"," ","<","n","e","w","s","l","e","t","t","e","r","@","a","x","i","o","s",".","c","o","m",">">>

\* Newsletters as fetch_newsletters returns them (sender, subject, urls);
\* one lists a URL twice, and URLs are shared between newsletters
NewsletterNYT ==
  [sender |-> SenderNYT, subject |-> SubjectDaily,
   urls |-> <<UrlFed, UrlFedCopy, UrlFed, UrlDead>>]

NewsletterAxios ==
  [sender |-> SenderAxios, subject |-> SubjectDaily,
   urls |-> <<UrlElection, UrlFed, UrlSenate, UrlWelcome>>]

NewsletterPool == {NewsletterNYT, NewsletterAxios}

MaxNewsletters == 2

\* Results of get_read_article_urls
ReadUrlChoices == {<<>>, <<UrlElection>>}

\* Results of get_junk_filters_with_type
JunkFilterChoices ==
  {<<>>,
   <<[pattern |-> <<"t","e","c","h","c","r","u","n","c","h",".","c","o","m">>, pattern_type |-> "domain"],
     [pattern |-> <<"s","e","n","a","t","e"," ","v","o","t","e">>, pattern_type |-> "title"]>>}

\* Results of get_source_scores: net votes per lowercased, stripped source
ScoreKeys ==
  { <<"n","e","w","s","l","e","t","t","e","r","@","n","y","t",".","c","o","m">>,
    <<"a","x","i","o","s"," ","a","m"," ","<","n","e","w","s","l","e","t","t","e","r","@","a","x","i","o","s",".","c","o","m",">">> }

ScoreValues == {-3, -2, 2}

ScoreMaps == UNION {[D -> ScoreValues] : D \in SUBSET ScoreKeys}

\* Outcomes of a completion call
AIResponses == {[ok |-> FALSE, content |-> <<>>],
                [ok |-> TRUE, content |-> <<" ","K","e","y"," ","f","a","c","t","s","."," ">>]}

----------------------------------------------------------------------------
(* process_and_send_digest (src/app.py), one action per pipeline step      *)

EnvironmentValues == {"None", ""}

Init ==
  /\ pc = "idle"
  /\ input = <<>>
  /\ output = <<>>
  /\ output2 = <<>>
  /\ RunIdle
  /\ \E email_address \in EnvironmentValues \cup {"reader@yahoo.com"},
        email_password \in EnvironmentValues \cup {"app-password"} :
       config = get_config(email_address, email_password)

\* The configuration check and the construction of the processors
StartRun ==
  /\ pc = "idle"
  /\ IF credentials_missing(config)
     THEN /\ last_run_data' =
               [last_run_data EXCEPT !.status = "Error", !.step = 0,
                                     !.error = "Email credentials not configured"]
          /\ returned' = "False"
          /\ pc' = "done"
     ELSE /\ last_run_data' = update_status(last_run_data, "Vibing with your inbox", 2)
          /\ returned' = returned
          /\ pc' = "fetch"
  /\ UNCHANGED <<mail, calls, config, threads, run_read_urls>>
  /\ UNCHANGED <<input, output, output2, run_newsletters, run_fetched, run_articles, db,
                 run_unique_articles, ranker_input, run_source_scores, ranker_output,
                 run_categorized_articles, digest_file, sent>>

\* EmailProcessor.connect: the connection is refused (self.mail stays None),
\* the login fails (self.mail is set, connect returns False) or succeeds
ConnectOutcomes == {"None", "login_failed", "logged_in"}

\* Step 1: fetch_newsletters connects and returns a list of newsletters, the
\* empty list when connect returns False
FetchNewsletters ==
  /\ pc = "fetch"
  /\ \E connection \in ConnectOutcomes,
        found \in SeqsUpTo(NewsletterPool, MaxNewsletters) :
       /\ connection # "logged_in" => found = <<>>
       /\ run_newsletters' = found
       /\ calls' = Append(calls, "fetch_newsletters")
       /\ IF found = <<>>
          THEN /\ last_run_data' =
                    [halted(last_run_data, "No newsletters found")
                       EXCEPT !.newsletter_count = 0]
               /\ mail' = disconnect(connection)
               /\ returned' = "False"
               /\ pc' = "done"
          ELSE /\ last_run_data' =
                    update_status([last_run_data EXCEPT !.newsletter_count = Len(found)],
                                  "Extracting the good stuff", 3)
               /\ mail' = connection
               /\ returned' = returned
               /\ pc' = "extract"
  /\ UNCHANGED <<config, threads, run_read_urls>>
  /\ UNCHANGED <<input, output, output2, run_fetched, run_articles, db,
                 run_unique_articles, ranker_input, run_source_scores, ranker_output,
                 run_categorized_articles, digest_file, sent>>

\* Step 2: extract_articles_from_newsletters
ExtractArticles ==
  /\ pc = "extract"
  /\ \E web \in WebChoices :
       LET extracted == extract_articles_from_newsletters(run_newsletters, web)
       IN  /\ run_articles' = extracted.articles
           /\ run_fetched' = extracted.fetched
  /\ last_run_data' = update_status(last_run_data, "Filtering out old news", 4)
  /\ pc' = "filter_read"
  /\ calls' = Append(calls, "extract_articles_from_newsletters")
  /\ UNCHANGED <<mail, returned>>
  /\ UNCHANGED <<config, threads, run_read_urls>>
  /\ UNCHANGED <<input, output, output2, run_newsletters, db,
                 run_unique_articles, ranker_input, run_source_scores, ranker_output,
                 run_categorized_articles, digest_file, sent>>

\* Step 2.5: get_supabase_db, the read filter and the empty check
FilterReadArticles ==
  /\ pc = "filter_read"
  /\ \E connected \in BOOLEAN, read_urls \in ReadUrlChoices :
       LET remaining == IF connected THEN filter_read(run_articles, read_urls)
                        ELSE run_articles
       IN  /\ db' = connected
           /\ run_read_urls' = IF connected THEN read_urls ELSE <<>>
           /\ run_articles' = remaining
           /\ IF remaining = <<>>
              THEN /\ last_run_data' = halted(last_run_data, "No articles extracted")
                   /\ mail' = disconnect(mail)
                   /\ returned' = "False"
                   /\ pc' = "done"
              ELSE /\ last_run_data' =
                        update_status(last_run_data, "Removing duplicates", 5)
                   /\ UNCHANGED <<mail, returned>>
                   /\ pc' = "dedup"
  /\ UNCHANGED calls
  /\ UNCHANGED <<config, threads>>
  /\ UNCHANGED <<input, output, output2, run_newsletters, run_fetched,
                 run_unique_articles, ranker_input, run_source_scores, ranker_output,
                 run_categorized_articles, digest_file, sent>>

\* Step 3: deduplicate_articles and the empty check
DeduplicateArticles ==
  /\ pc = "dedup"
  /\ run_unique_articles' = deduplicate_articles(run_articles)
  /\ IF run_unique_articles' = <<>>
     THEN /\ last_run_data' = halted(last_run_data, "No unique articles")
          /\ mail' = disconnect(mail)
          /\ returned' = "False"
          /\ pc' = "done"
     ELSE /\ last_run_data' = update_status(last_run_data, "Taking out the trash", 6)
          /\ UNCHANGED <<mail, returned>>
          /\ pc' = "filter_junk"
  /\ calls' = Append(calls, "deduplicate_articles")
  /\ UNCHANGED <<config, threads, run_read_urls>>
  /\ UNCHANGED <<input, output, output2, run_newsletters, run_fetched, run_articles, db,
                 ranker_input, run_source_scores, ranker_output,
                 run_categorized_articles, digest_file, sent>>

\* Step 3.5: the junk filter and the empty check
FilterJunkArticles ==
  /\ pc = "filter_junk"
  /\ \E junk_filters \in JunkFilterChoices :
       LET remaining == IF db THEN filter_junk(run_unique_articles, junk_filters)
                        ELSE run_unique_articles
       IN  /\ run_unique_articles' = remaining
           /\ IF remaining = <<>>
              THEN /\ last_run_data' =
                        halted(last_run_data, "No articles after filtering")
                   /\ mail' = disconnect(mail)
                   /\ returned' = "False"
                   /\ pc' = "done"
              ELSE /\ last_run_data' = last_run_data
                   /\ UNCHANGED <<mail, returned>>
                   /\ pc' = "rank"
  /\ UNCHANGED calls
  /\ UNCHANGED <<config, threads, run_read_urls>>
  /\ UNCHANGED <<input, output, output2, run_newsletters, run_fetched, run_articles, db,
                 ranker_input, run_source_scores, ranker_output,
                 run_categorized_articles, digest_file, sent>>

\* Step 3.6: the vote filter and the sort, applied when persistence is
\* available and returns a non-empty score mapping; ranker_input and
\* ranker_output record the list entering and leaving the step
ApplyVoteLearning ==
  /\ pc = "rank"
  /\ \E scores \in ScoreMaps :
       LET ranked == IF db /\ DOMAIN scores # {}
                     THEN apply_vote_learning(run_unique_articles, scores)
                     ELSE run_unique_articles
       IN  /\ run_source_scores' = IF db THEN scores ELSE <<>>
           /\ ranker_input' = run_unique_articles
           /\ run_unique_articles' = ranked
           /\ ranker_output' = ranked
           /\ last_run_data' =
                update_status([last_run_data EXCEPT !.article_count = Len(ranked)],
                              "AI magic happening", 7)
  /\ pc' = "summarize"
  /\ UNCHANGED <<mail, calls, returned>>
  /\ UNCHANGED <<config, threads, run_read_urls>>
  /\ UNCHANGED <<input, output, output2, run_newsletters, run_fetched, run_articles, db,
                 run_categorized_articles, digest_file, sent>>

\* Step 4: summarize_all_articles
SummarizeArticles ==
  /\ pc = "summarize"
  /\ \E use_ai \in BOOLEAN,
        ai_responses \in [1..Len(run_unique_articles) -> AIResponses] :
       run_unique_articles' = summarize_all_articles(run_unique_articles, use_ai, ai_responses)
  /\ last_run_data' = update_status(last_run_data, "Organizing by topic", 8)
  /\ pc' = "categorize"
  /\ calls' = Append(calls, "summarize_all_articles")
  /\ UNCHANGED <<mail, returned>>
  /\ UNCHANGED <<config, threads, run_read_urls>>
  /\ UNCHANGED <<input, output, output2, run_newsletters, run_fetched, run_articles, db,
                 ranker_input, run_source_scores, ranker_output,
                 run_categorized_articles, digest_file, sent>>

\* Step 5: categorize_articles
CategorizeArticles ==
  /\ pc = "categorize"
  /\ run_categorized_articles' = categorize_articles(run_unique_articles)
  /\ last_run_data' = update_status(last_run_data, "Making it pretty", 9)
  /\ pc' = "digest"
  /\ calls' = Append(calls, "categorize_articles")
  /\ UNCHANGED <<mail, returned>>
  /\ UNCHANGED <<config, threads, run_read_urls>>
  /\ UNCHANGED <<input, output, output2, run_newsletters, run_fetched, run_articles, db,
                 run_unique_articles, ranker_input, run_source_scores, ranker_output,
                 digest_file, sent>>

\* Variant: the outcome of send_digest decides how the run ends
GenerateDigest_send_decides ==
  /\ pc = "digest"
  /\ \E written \in BOOLEAN, success \in BOOLEAN :
       LET html_content == generate_html_digest(run_categorized_articles)
       IN  IF written
           THEN /\ digest_file' = <<html_content>>
                /\ sent' = IF success THEN Append(sent, html_content) ELSE sent
                /\ last_run_data' =
                     IF success
                     THEN [last_run_data EXCEPT !.status = "Success", !.step = 9,
                                                !.error = "None"]
                     ELSE [last_run_data EXCEPT !.status = "Error", !.step = 0,
                                                !.error = "digest not sent"]
                /\ calls' = calls \o <<"generate_html_digest", "send_digest">>
                /\ returned' = IF success THEN "True" ELSE "False"
           ELSE /\ UNCHANGED <<digest_file, sent>>
                /\ last_run_data' =
                     [last_run_data EXCEPT !.status = "Error", !.step = 0,
                                           !.error = "digest file not written"]
                /\ calls' = Append(calls, "generate_html_digest")
                /\ returned' = "False"
  /\ pc' = "done"
  /\ mail' = disconnect(mail)
  /\ UNCHANGED <<config, threads, run_read_urls>>
  /\ UNCHANGED <<input, output, output2, run_newsletters, run_fetched, run_articles, db,
                 run_unique_articles, ranker_input, run_source_scores, ranker_output,
                 run_categorized_articles>>

\* Steps 6.5 and 7: the digest is rendered and written to the digest file
\* (which may raise), then sent; the outcome of send_digest does not change
\* the status
GenerateDigest ==
  /\ pc = "digest"
  /\ \E written \in BOOLEAN, success \in BOOLEAN :
       LET html_content == generate_html_digest(run_categorized_articles)
       IN  IF written
           THEN /\ digest_file' = <<html_content>>
                /\ sent' = IF success THEN Append(sent, html_content) ELSE sent
                /\ last_run_data' =
                     [last_run_data EXCEPT !.status = "Success", !.step = 9,
                                           !.error = "None"]
                /\ calls' = calls \o <<"generate_html_digest", "send_digest">>
                /\ returned' = "True"
           ELSE /\ UNCHANGED <<digest_file, sent>>
                /\ last_run_data' =
                     [last_run_data EXCEPT !.status = "Error", !.step = 0,
                                           !.error = "digest file not written"]
                /\ calls' = Append(calls, "generate_html_digest")
                /\ returned' = "False"
  /\ pc' = "done"
  /\ mail' = disconnect(mail)
  /\ UNCHANGED <<config, threads, run_read_urls>>
  /\ UNCHANGED <<input, output, output2, run_newsletters, run_fetched, run_articles, db,
                 run_unique_articles, ranker_input, run_source_scores, ranker_output,
                 run_categorized_articles>>

Next ==
  \/ StartRun
  \/ FetchNewsletters
  \/ ExtractArticles
  \/ FilterReadArticles
  \/ DeduplicateArticles
  \/ FilterJunkArticles
  \/ ApplyVoteLearning
  \/ SummarizeArticles
  \/ CategorizeArticles
  \/ GenerateDigest

Spec == Init /\ [][Next]_vars

----------------------------------------------------------------------------
(* Properties of a pipeline run                                            *)

Urls(s) == [i \in 1..Len(s) |-> s[i].url]

\* The articles of all buckets of a mapping, bucket after bucket
RECURSIVE Bucketed(_, _)
Bucketed(categorized, k) ==
  IF k > Len(categorized) THEN <<>>
  ELSE categorized[k].articles \o Bucketed(categorized, k + 1)

\* An article without the summary field
WithoutSummary(a) == [f \in DOMAIN a \ {"summary"} |-> a[f]]

Unsummarized(s) == [i \in 1..Len(s) |-> WithoutSummary(s[i])]

\* The score the mapping read in the vote-learning step gives an article:
\* the entry for the lowercased, stripped sender, 0 when there is none
SenderScore(a) ==
  LET key == Strip(Lower(a.newsletter_sender))
  IN  IF key \in DOMAIN run_source_scores THEN run_source_scores[key] ELSE 0

\* The position of an article in the list that entered the ranker
InputPosition(a) == CHOOSE k \in 1..Len(ranker_input) : ranker_input[k] = a

\* C5: within a run no two extracted articles have the same url, and so no
\* two articles of any later stage (deduplicated, filtered and ranked list,
\* category buckets, digest entries) have; no URL is requested twice, even
\* when it is listed several times in one newsletter or in several
C5_UrlsUniqueWithinRun ==
  /\ NoRepeats(run_fetched)
  /\ NoRepeats(Urls(run_articles))
  /\ NoRepeats(Urls(run_unique_articles))
  /\ NoRepeats(Urls(ranker_output))
  /\ NoRepeats(Urls(Bucketed(run_categorized_articles, 1)))
  /\ \A d \in 1..Len(digest_file) :
       NoRepeats(Urls(Bucketed([k \in 1..Len(digest_file[d].sections) |->
                                  [articles |-> digest_file[d].sections[k].entries]], 1)))

\* A run that reached the digest although one newsletter listed a URL twice
\* and another newsletter listed the same URL again
C5_Witness ==
  /\ pc = "done"
  /\ last_run_data.status = "Success"
  /\ Len(run_articles) >= 2
  /\ \E n \in 1..Len(run_newsletters) :
       /\ ~NoRepeats(run_newsletters[n].urls)
       /\ \E m \in 1..Len(run_newsletters) :
            /\ m # n
            /\ Range(run_newsletters[m].urls) \cap Range(run_newsletters[n].urls) # {}
            /\ run_newsletters[m] # run_newsletters[n]

\* C8: the summarised list is the list that left the ranker, article by
\* article, and the articles of every category bucket stand in the relative
\* order they have in the list that left the ranker
C8_BucketsFollowRankerOrder ==
  /\ pc \in {"categorize", "digest"} =>
       Unsummarized(run_unique_articles) = ranker_output
  /\ \A k \in 1..Len(run_categorized_articles) :
       IsSubseq(Unsummarized(run_categorized_articles[k].articles), ranker_output)

\* A finished run with a bucket holding two articles that the ranker had
\* put in the opposite order to the one in which they were discovered
C8_Witness ==
  /\ pc = "done"
  /\ \E k \in 1..Len(run_categorized_articles) :
       LET bucket == Unsummarized(run_categorized_articles[k].articles)
       IN  \E i, j \in 1..Len(bucket) :
             /\ i < j
             /\ InputPosition(bucket[j]) < InputPosition(bucket[i])

\* C9: after the vote-learning step no remaining article has a sender whose
\* lowercased, stripped form has a score of -3 or less, and every article
\* that entered the step with a sender score above -3 (unscored senders
\* count 0) is still in the list, once
C9_DownvotedSourcesExcluded ==
  /\ \A i \in 1..Len(ranker_output) : ~(SenderScore(ranker_output[i]) <= -3)
  /\ \A i \in 1..Len(ranker_input) :
       SenderScore(ranker_input[i]) > -3 =>
         Count(ranker_output, ranker_input[i]) = 1
  /\ \A i \in 1..Len(ranker_output) : Count(ranker_input, ranker_output[i]) = 1

\* The step has just excluded an article of a sender with score -3 whose
\* sender string differs from its key, and kept one of a sender with -2
C9_Witness ==
  /\ pc = "summarize"
  /\ \E i \in 1..Len(ranker_input) :
       /\ SenderScore(ranker_input[i]) = -3
       /\ ranker_input[i].newsletter_sender \notin DOMAIN run_source_scores
       /\ Count(ranker_output, ranker_input[i]) = 0
  /\ \E j \in 1..Len(ranker_output) : SenderScore(ranker_output[j]) = -2

\* C10: the list leaving the ranker holds the retained articles in
\* non-increasing order of sender score, and two articles of equal score
\* stand in the order in which they entered
C10_StableDescendingSort ==
  /\ Range(ranker_output) = {a \in Range(ranker_input) : SenderScore(a) > -3}
  /\ \A i, j \in 1..Len(ranker_output) :
       i < j =>
         /\ SenderScore(ranker_output[i]) >= SenderScore(ranker_output[j])
         /\ SenderScore(ranker_output[i]) = SenderScore(ranker_output[j]) =>
              InputPosition(ranker_output[i]) < InputPosition(ranker_output[j])

\* The step has just moved two articles of equal score in front of an
\* article that had entered before them
C10_Witness ==
  /\ pc = "summarize"
  /\ \E i, j, k \in 1..Len(ranker_output) :
       /\ i < j /\ j < k
       /\ SenderScore(ranker_output[i]) = SenderScore(ranker_output[j])
       /\ SenderScore(ranker_output[j]) > SenderScore(ranker_output[k])
       /\ InputPosition(ranker_output[k]) < InputPosition(ranker_output[i])

----------------------------------------------------------------------------
(* EmailProcessor.extract_urls (src/email_processor.py)                    *)

\* The percent escapes urllib's unquote decodes, as far as the modelled
\* links use them
HEX_ESCAPES ==
  (<<"2", "F">> :> "/") @@ (<<"3", "A">> :> ":") @@ (<<"3", "F">> :> "?")
    @@ (<<"3", "D">> :> "=") @@ (<<"2", "0">> :> " ")

\* The pieces that follow a '%', decoded and concatenated
RECURSIVE unquote_pieces(_, _)
unquote_pieces(pieces, k) ==
  IF k > Len(pieces) THEN <<>>
  ELSE LET piece == pieces[k]
       IN  (IF Len(piece) >= 2 /\ <<piece[1], piece[2]>> \in DOMAIN HEX_ESCAPES
            THEN <<HEX_ESCAPES[<<piece[1], piece[2]>>]>> \o SubSeq(piece, 3, Len(piece))
            ELSE <<"%">> \o piece)
           \o unquote_pieces(pieces, k + 1)

\* urllib.parse.unquote
unquote(s) ==
  LET pieces == SplitOn(s, <<"%">>)
  IN  pieces[1] \o unquote_pieces(pieces, 2)

\* urlparse(url).query: what stands between the first '?' and the fragment
url_query(url) ==
  LET body == SplitOn(url, <<"#">>)[1]
      parts == SplitOn(body, <<"?">>)
  IN  IF Len(parts) = 1 THEN <<>>
      ELSE SubSeq(body, Len(parts[1]) + 2, Len(body))

\* parse_qs(query)[param][0] as a sequence of at most one value: the value of
\* the first name=value pair with that name and a non-blank value
first_value(query, param) ==
  LET pairs == SplitOn(query, <<"&">>)
      named == SelectSeq(pairs, LAMBDA p :
                 /\ StartsWith(p, param \o <<"=">>)
                 /\ Len(p) > Len(param) + 1)
  IN  IF named = <<>> THEN <<>>
      ELSE <<unquote(ReplaceChar(SubSeq(named[1], Len(param) + 2, Len(named[1])),
                                 "+", " "))>>

redirect_params ==
  <<
    \* 'url'
    <<"u","r","l">>,
    \* 'u'
    <<"u">>,
    \* 'redirect'
    <<"r","e","d","i","r","e","c","t">>,
    \* 'link'
    <<"l","i","n","k">>,
    \* 'target'
    <<"t","a","r","g","e","t">>,
    \* 'destination'
    <<"d","e","s","t","i","n","a","t","i","o","n">>,
    \* 'goto'
    <<"g","o","t","o">>
  >>

\* The URLs a link contributes to decoded_urls: the link decoded, and the
\* URLs it wraps in a redirect parameter
decoded_from(url) ==
  LET decoded == unquote(url)
      query == url_query(decoded)
  IN  {decoded} \cup
      {unquote(first_value(query, redirect_params[p])[1]) :
         p \in {q \in 1..Len(redirect_params) :
                  /\ first_value(query, redirect_params[q]) # <<>>
                  /\ StartsWith(first_value(query, redirect_params[q])[1],
                                <<"h", "t", "t", "p">>)}}

exclude_patterns ==
  <<
    \* 'unsubscribe'
    <<"u","n","s","u","b","s","c","r","i","b","e">>,
    \* 'tracking'
    <<"t","r","a","c","k","i","n","g">>,
    \* 'pixel'
    <<"p","i","x","e","l">>,
    \* 'beacon'
    <<"b","e","a","c","o","n">>,
    \* 'email-open'
    <<"e","m","a","i","l","-","o","p","e","n">>,
    \* 'facebook.com'
    <<"f","a","c","e","b","o","o","k",".","c","o","m">>,
    \* 'instagram.com'
    <<"i","n","s","t","a","g","r","a","m",".","c","o","m">>,
    \* 'twitter.com'
    <<"t","w","i","t","t","e","r",".","c","o","m">>,
    \* 'x.com'
    <<"x",".","c","o","m">>,
    \* 'linkedin.com/login'
    <<"l","i","n","k","e","d","i","n",".","c","o","m","/","l","o","g","i","n">>,
    \* 'linkedin.com/in/'
    <<"l","i","n","k","e","d","i","n",".","c","o","m","/","i","n","/">>,
    \* 'linkedin.com/company'
    <<"l","i","n","k","e","d","i","n",".","c","o","m","/","c","o","m","p","a","n","y">>,
    \* 'youtube.com'
    <<"y","o","u","t","u","b","e",".","c","o","m">>,
    \* 'tiktok.com'
    <<"t","i","k","t","o","k",".","c","o","m">>,
    \* 'pinterest.com'
    <<"p","i","n","t","e","r","e","s","t",".","c","o","m">>,
    \* 'spotify.com'
    <<"s","p","o","t","i","f","y",".","c","o","m">>,
    \* '/contact'
    <<"/","c","o","n","t","a","c","t">>,
    \* '/privacy'
    <<"/","p","r","i","v","a","c","y">>,
    \* '/terms'
    <<"/","t","e","r","m","s">>,
    \* '/signin'
    <<"/","s","i","g","n","i","n">>,
    \* '/login'
    <<"/","l","o","g","i","n">>,
    \* '/signup'
    <<"/","s","i","g","n","u","p">>,
    \* '/unsubscribe'
    <<"/","u","n","s","u","b","s","c","r","i","b","e">>,
    \* '/preferences'
    <<"/","p","r","e","f","e","r","e","n","c","e","s">>,
    \* '/settings'
    <<"/","s","e","t","t","i","n","g","s">>,
    \* '/account'
    <<"/","a","c","c","o","u","n","t">>,
    \* 'app-store'
    <<"a","p","p","-","s","t","o","r","e">>,
    \* 'play.google'
    <<"p","l","a","y",".","g","o","o","g","l","e">>,
    \* 'itunes.apple'
    <<"i","t","u","n","e","s",".","a","p","p","l","e">>,
    \* 'schema.org'
    <<"s","c","h","e","m","a",".","o","r","g">>,
    \* 'mailto:'
    <<"m","a","i","l","t","o",":">>,
    \* 'tel:'
    <<"t","e","l",":">>,
    \* 'sms:'
    <<"s","m","s",":">>,
    \* '/feed'
    <<"/","f","e","e","d">>,
    \* '/rss'
    <<"/","r","s","s">>,
    \* '/sitemap'
    <<"/","s","i","t","e","m","a","p">>
  >>

exclude_domains ==
  <<
    \* 'facebook.com'
    <<"f","a","c","e","b","o","o","k",".","c","o","m">>,
    \* 'instagram.com'
    <<"i","n","s","t","a","g","r","a","m",".","c","o","m">>,
    \* 'linkedin.com'
    <<"l","i","n","k","e","d","i","n",".","c","o","m">>,
    \* 'twitter.com'
    <<"t","w","i","t","t","e","r",".","c","o","m">>,
    \* 'youtube.com'
    <<"y","o","u","t","u","b","e",".","c","o","m">>,
    \* 'tiktok.com'
    <<"t","i","k","t","o","k",".","c","o","m">>,
    \* 'pinterest.com'
    <<"p","i","n","t","e","r","e","s","t",".","c","o","m">>
  >>

\* url_lower is the address of one of the excluded domains itself
is_homepage(url_lower) ==
  \E d \in 1..Len(exclude_domains) :
    \E scheme \in {<<"h","t","t","p","s",":","/","/">>, <<"h","t","t","p",":","/","/">>} :
      \/ url_lower = scheme \o exclude_domains[d]
      \/ url_lower = scheme \o exclude_domains[d] \o <<"/">>

\* The test a decoded URL passes to be appended to filtered_urls
is_kept_url(url) ==
  /\ ~\E p \in 1..Len(exclude_patterns) : Contains(exclude_patterns[p], Lower(url))
  /\ ~is_homepage(Lower(url))

\* The members of the set urls after decoding and filtering; links is the
\* sequence of href values and pattern matches of the body, of which those
\* starting with 'http' enter the set
extracted_url_set(links) ==
  {u \in UNION {decoded_from(links[k]) :
                  k \in {m \in 1..Len(links) :
                           StartsWith(links[m], <<"h", "t", "t", "p">>)}} :
     is_kept_url(u)}

\* The orders in which iterating over a set can deliver its members
Iterations(S) == {s \in [1..Cardinality(S) -> S] : Range(s) = S}

----------------------------------------------------------------------------
(* extract_urls applied to the links of an email body                      *)

\* 'https://example.com/a'
LinkA == <<"h","t","t","p","s",":","/","/","e","x","a","m","p","l","e",".","c","o","m","/","a">>
\* 'https://news.example.org/b'
LinkB == <<"h","t","t","p","s",":","/","/","n","e","w","s",".","e","x","a","m","p","l","e",".","o","r","g","/","b">>
\* 'https://click.example.net/r?id=7&url=https%3A%2F%2Fexample.com%2Fc'
LinkRedirect == <<"h","t","t","p","s",":","/","/","c","l","i","c","k",".","e","x","a","m","p","l","e",".","n","e","t","/","r","?","i","d","=","7","&","u","r","l","=","h","t","t","p","s","%","3","A","%","2","F","%","2","F","e","x","a","m","p","l","e",".","c","o","m","%","2","F","c">>
\* 'https://example.com/unsubscribe?id=1'
LinkUnsubscribe == <<"h","t","t","p","s",":","/","/","e","x","a","m","p","l","e",".","c","o","m","/","u","n","s","u","b","s","c","r","i","b","e","?","i","d","=","1">>
\* 'https://LinkedIn.com/'
LinkHomepage == <<"h","t","t","p","s",":","/","/","L","i","n","k","e","d","I","n",".","c","o","m","/">>
\* '/relative/path'
LinkRelative == <<"/","r","e","l","a","t","i","v","e","/","p","a","t","h">>

LinkPool == {LinkA, LinkB, LinkRedirect, LinkUnsubscribe, LinkHomepage, LinkRelative}

MaxLinks == 3

InitUrls ==
  /\ pc = "start"
  /\ input \in SeqsUpTo(LinkPool, MaxLinks)
  /\ output = <<>>
  /\ output2 = <<>>
  /\ PipelineIdle

\* extract_urls: filtered_urls is filled by iterating over the set urls
ExtractUrls ==
  /\ pc = "start"
  /\ output' \in Iterations(extracted_url_set(input))
  /\ pc' = "extracted"
  /\ UNCHANGED <<input, output2>>
  /\ UNCHANGED pipeline_vars

NextUrls == ExtractUrls

SpecUrls == InitUrls /\ [][NextUrls]_vars

\* The place at which a URL is first discovered in the body: the first link
\* that contributes it
DiscoveryPosition(u) ==
  CHOOSE k \in 1..Len(input) :
    /\ StartsWith(input[k], <<"h", "t", "t", "p">>) /\ u \in decoded_from(input[k])
    /\ \A m \in 1..(k - 1) :
         ~(StartsWith(input[m], <<"h", "t", "t", "p">>) /\ u \in decoded_from(input[m]))

\* C11 (URL extraction): extract_urls returns the URLs in the order in which
\* they are discovered in the email body
C11_UrlsInDiscoveryOrder ==
  \A i, j \in 1..Len(output) :
    i < j => DiscoveryPosition(output[i]) < DiscoveryPosition(output[j])

----------------------------------------------------------------------------
(* ArticleProcessor.extract_articles_from_newsletters on its own           *)

ExtractUrlGood == <<"h","t","t","p","s",":","/","/","e",".","e","x","a","m","p","l","e","/","g","o","o","d">>
ExtractUrlExact == <<"h","t","t","p","s",":","/","/","e",".","e","x","a","m","p","l","e","/","e","x","a","c","t">>
ExtractUrlShort == <<"h","t","t","p","s",":","/","/","e",".","e","x","a","m","p","l","e","/","s","h","o","r","t">>
ExtractUrlHi == <<"h","t","t","p","s",":","/","/","e",".","e","x","a","m","p","l","e","/","h","i">>
ExtractUrlLogin == <<"h","t","t","p","s",":","/","/","e",".","e","x","a","m","p","l","e","/","l","o","g","i","n","-","p","a","g","e">>
ExtractUrlSubscribe == <<"h","t","t","p","s",":","/","/","e",".","e","x","a","m","p","l","e","/","o","f","f","e","r">>
ExtractUrlBrowse == <<"h","t","t","p","s",":","/","/","e",".","e","x","a","m","p","l","e","/","a","l","l">>
ExtractUrlNoText == <<"h","t","t","p","s",":","/","/","e",".","e","x","a","m","p","l","e","/","v","i","d","e","o">>
ExtractUrlBlank == <<"h","t","t","p","s",":","/","/","e",".","e","x","a","m","p","l","e","/","b","l","a","n","k">>
ExtractUrlNoTitle == <<"h","t","t","p","s",":","/","/","e",".","e","x","a","m","p","l","e","/","u","n","t","i","t","l","e","d">>
ExtractUrlTimeout == <<"h","t","t","p","s",":","/","/","e",".","e","x","a","m","p","l","e","/","t","i","m","e","o","u","t">>
ExtractUrlHuge == <<"h","t","t","p","s",":","/","/","e",".","e","x","a","m","p","l","e","/","h","u","g","e">>

ExtractUrlPool ==
  {ExtractUrlGood, ExtractUrlExact, ExtractUrlShort, ExtractUrlHi,
   ExtractUrlLogin, ExtractUrlSubscribe, ExtractUrlBrowse, ExtractUrlNoText,
   ExtractUrlBlank, ExtractUrlNoTitle, ExtractUrlTimeout, ExtractUrlHuge}

Story == <<<<"T","h","e"," ","c","o","m","m","i","t","t","e","e"," ","p","o","s","t","p","o","n","e","d"," ","t","h","e"," ","v","o","t","e",".">>, <<"M","e","m","b","e","r","s"," ","r","e","t","u","r","n"," ","o","n"," ","F","r","i","d","a","y",".">>>>

\* The pages behind the URLs: titles of 15, 14 and 2 characters, titles with
\* a marker (short, long, upper case), a page without paragraphs, a page
\* whose only paragraph is blank, a page without <title>, a request that
\* times out, and a page whose paragraphs cannot be collected
ExtractWeb ==
  (ExtractUrlGood :> Page(<<" ","S","e","n","a","t","e"," ","V","o","t","e"," ","D","e","l","a","y","e","d"," ","U","n","t","i","l"," ","F","r","i","d","a","y"," ">>, Story))
  @@ (ExtractUrlExact :> Page(<<"R","a","t","e","s"," ","R","i","s","e"," ","F","a","s","t">>, Story))
  @@ (ExtractUrlShort :> Page(<<"R","a","t","e","s"," ","R","i","s","e"," ","N","o","w">>, Story))
  @@ (ExtractUrlHi :> Page(<<"H","i">>, Story))
  @@ (ExtractUrlLogin :> Page(<<"L","o","g","i","n">>, Story))
  @@ (ExtractUrlSubscribe :> Page(<<"S","u","b","s","c","r","i","b","e"," ","T","o"," ","O","u","r"," ","D","a","i","l","y"," ","B","r","i","e","f","i","n","g">>, Story))
  @@ (ExtractUrlBrowse :> Page(<<"B","R","O","W","S","E"," ","A","L","L"," ","T","H","E"," ","L","A","T","E","S","T"," ","S","T","O","R","I","E","S">>, Story))
  @@ (ExtractUrlNoText :> Page(<<"B","u","d","g","e","t"," ","T","a","l","k","s"," ","S","t","a","l","l"," ","I","n"," ","C","o","n","g","r","e","s","s">>, <<>>))
  @@ (ExtractUrlBlank :> Page(<<"M","a","r","k","e","t","s"," ","C","l","o","s","e"," ","H","i","g","h","e","r"," ","A","g","a","i","n">>, <<<<" ">>>>))
  @@ (ExtractUrlNoTitle :>
        [raises |-> "nowhere", title_tag |-> <<>>, article_tags |-> <<Story>>])
  @@ (ExtractUrlTimeout :> Unreachable)
  @@ (ExtractUrlHuge :>
        [raises |-> "content", title_tag |-> <<<<"S","t","o","r","m"," ","C","l","o","s","e","s"," ","C","o","a","s","t","a","l"," ","R","o","a","d","s">>>>,
         article_tags |-> <<Story>>])

MaxExtractUrls == 2

InitExtract ==
  /\ pc = "start"
  /\ \E urls \in SeqsUpTo(ExtractUrlPool, MaxExtractUrls) :
       input = [newsletters |-> <<[sender |-> SenderNYT,
                                   subject |-> <<"M","o","r","n","i","n","g"," ","B","r","i","e","f","i","n","g">>,
                                   urls |-> urls]>>,
                web |-> ExtractWeb]
  /\ output = <<>>
  /\ output2 = <<>>
  /\ PipelineIdle

\* extract_articles_from_newsletters(newsletters); output2 keeps the records
\* extract_article_content returned, one per call
ExtractFromNewsletters ==
  /\ pc = "start"
  /\ LET result == extract_articles_from_newsletters(input.newsletters, input.web)
     IN  /\ output' = result.articles
         /\ output2' = [i \in 1..Len(result.fetched) |->
                          extract_article_content(result.fetched[i],
                                                  input.web[result.fetched[i]])]
  /\ pc' = "extracted"
  /\ UNCHANGED input
  /\ UNCHANGED pipeline_vars

NextExtract == ExtractFromNewsletters

SpecExtract == InitExtract /\ [][NextExtract]_vars

\* The URLs the newsletters of the input list
ListedUrls ==
  UNION {Range(input.newsletters[n].urls) : n \in 1..Len(input.newsletters)}

\* The record the fetch of url returned
FetchOf(url) == output2[CHOOSE i \in 1..Len(output2) : output2[i].url = url]

HasMarker(title) ==
  \E p \in 1..Len(junk_title_patterns) :
    Contains(junk_title_patterns[p], Lower(title))

Emitted(url) == {i \in 1..Len(output) : output[i].url = url}

\* C12 (article filter): for each distinct URL of a run an article is
\* emitted, once, if and only if its fetch reported extraction_success true,
\* its lowercased title contains none of the boilerplate markers and its
\* title has at least 15 characters
C12_EmittedIffFilterPasses ==
  pc = "extracted" =>
    \A url \in ListedUrls :
      /\ Cardinality({i \in 1..Len(output2) : output2[i].url = url}) = 1
      /\ Cardinality(Emitted(url)) <= 1
      /\ Emitted(url) # {} <=>
           /\ FetchOf(url).extraction_success
           /\ ~HasMarker(FetchOf(url).title)
           /\ Len(FetchOf(url).title) >= 15

\* An article with a title of exactly 15 characters was emitted and a fetch
\* that succeeded with a long title holding a marker was rejected
C12_Witness ==
  /\ pc = "extracted"
  /\ \E i \in 1..Len(output) : Len(output[i].title) = 15
  /\ \E url \in ListedUrls :
       /\ Emitted(url) = {}
       /\ FetchOf(url).extraction_success
       /\ Len(FetchOf(url).title) >= 15
       /\ HasMarker(FetchOf(url).title)

\* C13 (extraction_success): for every record extract_article_content
\* returns, extraction_success is true if and only if text is not empty
C13_SuccessIffTextNonEmpty ==
  \A i \in 1..Len(output2) :
    output2[i].extraction_success <=> output2[i].text # <<>>

\* C14 (failures): whenever the request, the parse or the extraction fails,
\* the record returned has extraction_success false and empty title and text
C14_FailureLeavesRecordBlank ==
  \A i \in 1..Len(output2) :
    input.web[output2[i].url].raises # "nowhere" =>
      /\ ~output2[i].extraction_success
      /\ output2[i].title = <<>>
      /\ output2[i].text = <<>>

----------------------------------------------------------------------------
(* process_and_send_digest, step 3.5 on its own                            *)

JunkArticle(url, title) ==
  [url |-> url, title |-> title, text |-> <<"B","o","d","y",".">>,
   newsletter_sender |-> SenderNYT]

\* Hosts with www. and upper case, a host that merely contains a blocked
\* domain, a blocked domain in the query only, a host with a port, and a
\* title that names a domain
JunkArticlePool ==
  {JunkArticle(<<"h","t","t","p","s",":","/","/","w","w","w",".","T","e","c","h","C","r","u","n","c","h",".","c","o","m","/","2","0","2","4","/","s","t","a","r","t","u","p">>,
               <<"S","t","a","r","t","u","p"," ","R","a","i","s","e","s"," ","S","e","e","d"," ","R","o","u","n","d">>),
   JunkArticle(<<"h","t","t","p","s",":","/","/","t","e","c","h","c","r","u","n","c","h",".","c","o","m",".","m","i","r","r","o","r",".","e","x","a","m","p","l","e","/","x","?","r","e","f","=","n","y","t",".","c","o","m">>,
               <<"S","e","n","a","t","e"," ","V","o","t","e"," ","D","e","l","a","y","e","d"," ","U","n","t","i","l"," ","F","r","i","d","a","y">>),
   JunkArticle(<<"h","t","t","p","s",":","/","/","n","e","w","s",".","e","x","a","m","p","l","e",".","o","r","g",":","8","0","8","0","/","s","p","o","r","t","s","/","f","i","n","a","l">>,
               <<"C","u","p"," ","F","I","N","A","L"," ","E","n","d","s"," ","I","n"," ","A"," ","D","r","a","w">>),
   JunkArticle(<<"h","t","t","p","s",":","/","/","s","t","a","t","u","s",".","e","x","a","m","p","l","e",".","n","e","t","/","p","o","s","t">>,
               <<"W","h","y"," ","E","x","a","m","p","l","e",".","o","r","g"," ","W","e","n","t"," ","O","f","f","l","i","n","e">>)}

\* Rows of junk_filters: typed domain, typed title, without pattern_type,
\* with another pattern_type, and a title pattern in upper case
JunkFilterPool ==
  {[pattern |-> <<"t","e","c","h","c","r","u","n","c","h",".","c","o","m">>, pattern_type |-> "domain"],
   [pattern |-> <<"n","y","t",".","c","o","m">>, pattern_type |-> "domain"],
   [pattern |-> <<"s","e","n","a","t","e"," ","v","o","t","e">>, pattern_type |-> "title"],
   [pattern |-> <<"f","i","n","a","l">>],
   [pattern |-> <<"e","x","a","m","p","l","e",".","o","r","g">>, pattern_type |-> "url"],
   [pattern |-> <<"S","t","a","r","t","u","p">>, pattern_type |-> "title"]}

MaxJunkArticles == 2
MaxJunkFilters == 2

InitJunk ==
  /\ pc = "start"
  /\ \E articles \in SeqsUpTo(JunkArticlePool, MaxJunkArticles),
        junk_filters \in SeqsUpTo(JunkFilterPool, MaxJunkFilters) :
       input = [unique_articles |-> articles, junk_filters |-> junk_filters]
  /\ output = <<>>
  /\ output2 = <<>>
  /\ PipelineIdle

\* Step 3.5 with the rows get_junk_filters_with_type returned
FilterJunk ==
  /\ pc = "start"
  /\ output' = filter_junk(input.unique_articles, input.junk_filters)
  /\ pc' = "filtered"
  /\ UNCHANGED <<input, output2>>
  /\ UNCHANGED pipeline_vars

NextJunk == FilterJunk

SpecJunk == InitJunk /\ [][NextJunk]_vars

\* The host of a URL: its network location, lowercased, without a leading
\* "www."
NormalizedHost(url) ==
  LET host == Lower(netloc(url))
  IN  IF Len(host) >= 4 /\ SubSeq(host, 1, 4) = <<"w","w","w",".">>
      THEN SubSeq(host, 5, Len(host)) ELSE host

PatternMatches(jf, article) ==
  IF "pattern_type" \in DOMAIN jf /\ jf.pattern_type = "domain"
  THEN Contains(jf.pattern, NormalizedHost(article.url))
  ELSE Contains(jf.pattern, Lower(article.title))

\* The positions of the articles no pattern matches
Retained ==
  {i \in 1..Len(input.unique_articles) :
     \A k \in 1..Len(input.junk_filters) :
       ~PatternMatches(input.junk_filters[k], input.unique_articles[i])}

\* C15 (junk filter): with a non-empty pattern list an article is removed if
\* and only if some pattern matches it (a domain pattern as a substring of
\* the normalized host, any other or untyped pattern as a substring of the
\* lowercased title), and the retained articles keep their relative order
C15_JunkFilterSemantics ==
  (pc = "filtered" /\ input.junk_filters # <<>>) =>
    /\ Len(output) = Cardinality(Retained)
    /\ \A i \in Retained :
         output[Cardinality({j \in Retained : j <= i})] = input.unique_articles[i]

\* Of two articles one was removed by a pattern without pattern_type or with
\* a type other than domain and title, the other matched nothing and stayed
C15_Witness ==
  /\ pc = "filtered"
  /\ Len(input.unique_articles) = 2
  /\ Len(output) = 1
  /\ \E i \in 1..2, k \in 1..Len(input.junk_filters) :
       /\ i \notin Retained
       /\ PatternMatches(input.junk_filters[k], input.unique_articles[i])
       /\ \/ "pattern_type" \notin DOMAIN input.junk_filters[k]
          \/ input.junk_filters[k].pattern_type \notin {"domain", "title"}
  /\ \E k \in 1..Len(input.junk_filters) :
       /\ "pattern_type" \in DOMAIN input.junk_filters[k]
       /\ input.junk_filters[k].pattern_type = "domain"

----------------------------------------------------------------------------
(* api_mark_junk (src/app.py) and SupabaseDB.add_junk_filter               *)

\* table('junk_filters').upsert(data, on_conflict='pattern'): the row with
\* the same pattern is replaced, otherwise the row is added
upsert(table, data) ==
  IF \E k \in 1..Len(table) : table[k].pattern = data.pattern
  THEN [k \in 1..Len(table) |->
          IF table[k].pattern = data.pattern THEN data ELSE table[k]]
  ELSE Append(table, data)

\* fails: the request to the database raises
add_junk_filter(table, pattern, article_url, article_title, pattern_type, fails) ==
  LET data == [pattern |-> Lower(pattern), pattern_type |-> pattern_type,
               article_url |-> article_url, article_title |-> article_title]
  IN  IF fails THEN [success |-> FALSE, table |-> table]
      ELSE [success |-> TRUE, table |-> upsert(table, data)]

JsonResponse(success, message, code) ==
  [success |-> success, message |-> message, code |-> code]

\* api_mark_junk without the removal of the www. prefix
api_mark_junk_keep_www(data, database) ==
  LET article_url == data.url
      article_title == data.title
      domain == Lower(netloc(article_url))
      added == add_junk_filter(database.table, domain, article_url,
                               article_title, "domain", database.fails)
  IN  IF article_url = <<>>
      THEN [response |-> JsonResponse(FALSE, <<"A","r","t","i","c","l","e"," ","U","R","L"," ","i","s"," ","r","e","q","u","i","r","e","d">>, 400),
            table |-> database.table]
      ELSE IF ~database.configured
      THEN [response |-> JsonResponse(FALSE, <<"S","u","p","a","b","a","s","e"," ","n","o","t"," ","c","o","n","f","i","g","u","r","e","d">>, 500),
            table |-> database.table]
      ELSE IF domain = <<>>
      THEN [response |-> JsonResponse(FALSE, <<"C","o","u","l","d"," ","n","o","t"," ","e","x","t","r","a","c","t"," ","d","o","m","a","i","n"," ","f","r","o","m"," ","U","R","L">>, 400),
            table |-> database.table]
      ELSE IF added.success
      THEN [response |-> [success |-> TRUE,
                          message |-> <<"B","l","o","c","k","e","d"," ","d","o","m","a","i","n",":"," ">> \o domain,
                          pattern |-> domain, code |-> 200],
            table |-> added.table]
      ELSE [response |-> JsonResponse(FALSE, <<"F","a","i","l","e","d"," ","t","o"," ","a","d","d"," ","j","u","n","k"," ","f","i","l","t","e","r">>, 500),
            table |-> added.table]

\* data is the JSON body (url, title); database tells whether Supabase is
\* configured, whether its request raises, and holds the junk_filters table
api_mark_junk(data, database) ==
  LET article_url == data.url
      article_title == data.title
      parsed_netloc == Lower(netloc(article_url))
      domain == IF StartsWith(parsed_netloc, <<"w","w","w",".">>)
                THEN SubSeq(parsed_netloc, 5, Len(parsed_netloc))
                ELSE parsed_netloc
      added == add_junk_filter(database.table, domain, article_url,
                               article_title, "domain", database.fails)
  IN  IF article_url = <<>>
      THEN [response |-> JsonResponse(FALSE, <<"A","r","t","i","c","l","e"," ","U","R","L"," ","i","s"," ","r","e","q","u","i","r","e","d">>, 400),
            table |-> database.table]
      ELSE IF ~database.configured
      THEN [response |-> JsonResponse(FALSE, <<"S","u","p","a","b","a","s","e"," ","n","o","t"," ","c","o","n","f","i","g","u","r","e","d">>, 500),
            table |-> database.table]
      ELSE IF domain = <<>>
      THEN [response |-> JsonResponse(FALSE, <<"C","o","u","l","d"," ","n","o","t"," ","e","x","t","r","a","c","t"," ","d","o","m","a","i","n"," ","f","r","o","m"," ","U","R","L">>, 400),
            table |-> database.table]
      ELSE IF added.success
      THEN [response |-> [success |-> TRUE,
                          message |-> <<"B","l","o","c","k","e","d"," ","d","o","m","a","i","n",":"," ">> \o domain,
                          pattern |-> domain, code |-> 200],
            table |-> added.table]
      ELSE [response |-> JsonResponse(FALSE, <<"F","a","i","l","e","d"," ","t","o"," ","a","d","d"," ","j","u","n","k"," ","f","i","l","t","e","r">>, 500),
            table |-> added.table]

MarkUrlPool ==
  {<<"h","t","t","p","s",":","/","/","w","w","w",".","E","x","a","m","p","l","e",".","c","o","m","/","m","a","r","k","e","t","s","/","c","r","a","s","h">>,
   <<"h","t","t","p","s",":","/","/","e","x","a","m","p","l","e",".","c","o","m","/","b">>,
   <<"h","t","t","p","s",":","/","/","B","l","o","g",".","E","x","a","m","p","l","e",".","o","r","g",":","8","0","8","0","/","x">>,
   <<"e","x","a","m","p","l","e",".","c","o","m","/","n","o","-","s","c","h","e","m","e">>,
   <<>>}

MarkTitlePool ==
  {<<"B","r","e","a","k","i","n","g"," ","M","a","r","k","e","t"," ","C","r","a","s","h"," ","T","o","d","a","y">>,
   <<"T","h","e"," ","B","i","g"," ","E","l","e","c","t","i","o","n">>,
   <<"I","s"," ","I","t"," ","O","n">>,
   <<>>}

\* The junk_filters table before the request: empty, or with a row whose
\* pattern is a domain the request may derive again
MarkTablePool ==
  {<<>>,
   <<[pattern |-> <<"e","x","a","m","p","l","e",".","c","o","m">>, pattern_type |-> "title",
      article_url |-> <<"h","t","t","p","s",":","/","/","e","x","a","m","p","l","e",".","c","o","m","/","o","l","d">>,
      article_title |-> <<"O","l","d"," ","S","t","o","r","y"," ","A","b","o","u","t"," ","M","a","r","k","e","t","s">>],
     [pattern |-> <<"m","a","r","k","e","t"," ","c","r","a","s","h">>, pattern_type |-> "title",
      article_url |-> <<"h","t","t","p","s",":","/","/","e","x","a","m","p","l","e",".","c","o","m","/","o","l","d">>,
      article_title |-> <<"M","a","r","k","e","t"," ","C","r","a","s","h"," ","E","x","p","l","a","i","n","e","d">>]>>}

MarkDatabasePool ==
  {[configured |-> c, fails |-> f, table |-> t] :
     c \in BOOLEAN, f \in BOOLEAN, t \in MarkTablePool}

InitMarkJunk ==
  /\ pc = "start"
  /\ \E url \in MarkUrlPool, title \in MarkTitlePool,
        database \in MarkDatabasePool :
       input = [data |-> [url |-> url, title |-> title], database |-> database]
  /\ output = <<>>
  /\ output2 = <<>>
  /\ PipelineIdle

\* POST /api/mark-junk: output is the JSON response, output2 the table
\* junk_filters after the request
MarkJunk ==
  /\ pc = "start"
  /\ LET result == api_mark_junk(input.data, input.database)
     IN  /\ output' = result.response
         /\ output2' = result.table
  /\ pc' = "marked"
  /\ UNCHANGED input
  /\ UNCHANGED pipeline_vars

NextMarkJunk == MarkJunk

SpecMarkJunk == InitMarkJunk /\ [][NextMarkJunk]_vars

\* Words a title pattern leaves out
PatternStopWords ==
  {<<"t","h","e">>, <<"a">>, <<"a","n">>, <<"a","n","d">>, <<"o","r">>, <<"b","u","t">>, <<"i","n">>,
   <<"o","n">>, <<"a","t">>, <<"t","o">>, <<"f","o","r">>, <<"o","f">>, <<"w","i","t","h">>, <<"f","r","o","m">>,
   <<"t","h","i","s">>, <<"t","h","a","t">>}

\* The title pattern: the first two significant words, the only significant
\* word, or the first two raw words
TitlePattern(title) ==
  LET words == Split(Lower(title))
      significant == SelectSeq(words, LAMBDA w : w \notin PatternStopWords /\ Len(w) > 3)
      FirstTwo(ws) == IF Len(ws) >= 2 THEN ws[1] \o <<" ">> \o ws[2]
                      ELSE IF Len(ws) = 1 THEN ws[1] ELSE <<>>
  IN  IF significant # <<>> THEN FirstTwo(significant) ELSE FirstTwo(words)

\* C16 (mark as junk, as claimed): a successful request stores the title
\* pattern derived from the article title
C16_TitlePatternStored ==
  (pc = "marked" /\ output.success) =>
    \E k \in 1..Len(output2) :
      /\ output2[k].pattern = TitlePattern(input.data.title)
      /\ output2[k].article_title = input.data.title
      /\ output2[k].article_url = input.data.url

\* C16 (amended): a successful request stores one pattern only, the domain
\* of the article URL (network location, lowercased, without a leading
\* "www."), with pattern type domain and the URL and title as they were
\* sent; the other rows stay as they were, and the request succeeds exactly
\* when the URL and its domain are not empty and the database accepts the row
C16_DomainPatternStored ==
  pc = "marked" =>
    LET host == NormalizedHost(input.data.url)
        before == input.database.table
        row == [pattern |-> host, pattern_type |-> "domain",
                article_url |-> input.data.url,
                article_title |-> input.data.title]
    IN  /\ output.success <=>
             /\ input.data.url # <<>> /\ host # <<>>
             /\ input.database.configured /\ ~input.database.fails
        /\ output.success =>
             /\ output.pattern = host
             /\ Cardinality({k \in 1..Len(output2) : output2[k].pattern = host}) = 1
             /\ \E k \in 1..Len(output2) : output2[k] = row
             /\ {output2[k] : k \in 1..Len(output2)} \ {row}
                  = {before[k] : k \in {j \in 1..Len(before) : before[j].pattern # host}}
        /\ ~output.success => output2 = before

\* A request for a www. URL with a title of several significant words
\* replaced the row that held the same pattern
C16_Witness ==
  /\ pc = "marked"
  /\ output.success
  /\ StartsWith(Lower(netloc(input.data.url)), <<"w","w","w",".">>)
  /\ Len(Split(input.data.title)) >= 3
  /\ Len(input.database.table) = 2
  /\ Len(output2) = 2

----------------------------------------------------------------------------
(* Properties of a run: empty results and missing credentials              *)

\* The status each stage reports when its result is empty, by the stage the
\* run is at
HaltStatus ==
  [fetch |-> "No newsletters found", filter_read |-> "No articles extracted",
   dedup |-> "No unique articles", filter_junk |-> "No articles after filtering"]

\* The calls that come after each of these stages
LaterCalls ==
  [fetch |-> {"extract_articles_from_newsletters", "deduplicate_articles",
              "summarize_all_articles", "categorize_articles",
              "generate_html_digest", "send_digest"},
   filter_read |-> {"deduplicate_articles", "summarize_all_articles",
                    "categorize_articles", "generate_html_digest", "send_digest"},
   dedup |-> {"summarize_all_articles", "categorize_articles",
              "generate_html_digest", "send_digest"},
   filter_junk |-> {"summarize_all_articles", "categorize_articles",
                    "generate_html_digest", "send_digest"}]

\* The step leaves the stage the run is at with an empty result
EmptyResult ==
  \/ pc = "fetch" /\ run_newsletters' = <<>>
  \/ pc = "filter_read" /\ run_articles' = <<>>
  \/ pc = "dedup" /\ run_unique_articles' = <<>>
  \/ pc = "filter_junk" /\ run_unique_articles' = <<>>

EmptyResultHalts ==
  /\ pc # "done"
  /\ EmptyResult =>
       /\ pc' = "done"
       /\ last_run_data'.status = HaltStatus[pc]
       /\ last_run_data'.article_count = 0
       /\ returned' = "False"
       /\ Range(calls') \cap LaterCalls[pc] = {}
       /\ digest_file' = <<>>
       /\ sent' = <<>>
       /\ run_categorized_articles' = <<>>
       /\ \A i \in 1..Len(run_articles') : "summary" \notin DOMAIN run_articles'[i]
       /\ \A i \in 1..Len(run_unique_articles') :
            "summary" \notin DOMAIN run_unique_articles'[i]
       /\ pc = "fetch" => run_fetched' = <<>>

\* C17 (empty results): a stage whose result is empty ends the run there with
\* the status of that stage, the run returns False with article_count 0, no
\* later stage is executed (no summary, no digest file, no email), a run
\* that has ended takes no further step, and with no newsletters nothing is
\* fetched for extraction
C17_EmptyResultEndsRun == [][EmptyResultHalts]_vars

\* A run ended at the junk filter after deduplication had kept an article
C17_Witness ==
  /\ pc = "done"
  /\ last_run_data.status = "No articles after filtering"
  /\ returned = "False"
  /\ run_articles # <<>>
  /\ "deduplicate_articles" \in Range(calls)

CredentialsUnset ==
  \/ config.email_address \in {"None", ""}
  \/ config.email_password \in {"None", ""}

\* C18 (configuration): without the mailbox address or password the run ends
\* with status Error and an error message, returns False, and no part of the
\* pipeline takes place: no connection, no fetch of newsletters or articles,
\* no digest file and no email
C18_NoPartialRunWithoutCredentials ==
  CredentialsUnset =>
    /\ pc \in {"idle", "done"}
    /\ mail = "None"
    /\ calls = <<>>
    /\ run_newsletters = <<>>
    /\ run_fetched = <<>>
    /\ run_articles = <<>>
    /\ digest_file = <<>>
    /\ sent = <<>>
    /\ pc = "done" =>
         /\ last_run_data.status = "Error"
         /\ last_run_data.error # "None"
         /\ returned = "False"

\* A run with an address and without a password has ended
C18_Witness ==
  /\ pc = "done"
  /\ config.email_address = "reader@yahoo.com"
  /\ config.email_password = "None"
  /\ returned = "False"

----------------------------------------------------------------------------
(* Sequential runs of process_and_send_digest                              *)

\* One run from its first to its last statement, as far as last_run_data
\* and the return value go. The results of the stages enter by their
\* lengths: newsletters (fetch_newsletters), articles (after the read
\* filter), unique_articles (after deduplication), filtered_articles (after
\* the junk filter), ranked (after the vote filter); written tells whether
\* the digest file could be written
process_and_send_digest(record, configuration, lengths) ==
  LET warming == update_status(record, "Warming up", 1)
      fetching == update_status(warming, "Vibing with your inbox", 2)
      extracting ==
        update_status([fetching EXCEPT !.newsletter_count = lengths.newsletters],
                      "Extracting the good stuff", 3)
      junk_filtering ==
        update_status(update_status(update_status(extracting,
          "Filtering out old news", 4), "Removing duplicates", 5),
          "Taking out the trash", 6)
      rendering ==
        update_status(update_status(update_status(
          [junk_filtering EXCEPT !.article_count = lengths.ranked],
          "AI magic happening", 7), "Organizing by topic", 8),
          "Making it pretty", 9)
  IN  IF credentials_missing(configuration)
      THEN [record |-> [warming EXCEPT !.status = "Error", !.step = 0,
                          !.error = "Email credentials not configured"],
            returned |-> "False"]
      ELSE IF lengths.newsletters = 0
      THEN [record |-> [halted(fetching, "No newsletters found")
                          EXCEPT !.newsletter_count = 0],
            returned |-> "False"]
      ELSE IF lengths.articles = 0
      THEN [record |-> halted(update_status(extracting, "Filtering out old news", 4),
                              "No articles extracted"),
            returned |-> "False"]
      ELSE IF lengths.unique_articles = 0
      THEN [record |-> halted(update_status(extracting, "Removing duplicates", 5),
                              "No unique articles"),
            returned |-> "False"]
      ELSE IF lengths.filtered_articles = 0
      THEN [record |-> halted(junk_filtering, "No articles after filtering"),
            returned |-> "False"]
      ELSE IF lengths.written
      THEN [record |-> [rendering EXCEPT !.status = "Success", !.step = 9,
                                         !.error = "None"],
            returned |-> "True"]
      ELSE [record |-> [rendering EXCEPT !.status = "Error", !.step = 0,
                                         !.error = "digest file not written"],
            returned |-> "False"]

MaxRunItems == 2

\* The lengths a run can see: each filter returns at most what it was given,
\* deduplication keeps at least one article of a non-empty list, and the
\* lengths after the stage at which a run ends are left at 0
RunLengths ==
  {l \in [newsletters : 0..MaxRunItems, articles : 0..MaxRunItems,
          unique_articles : 0..MaxRunItems, filtered_articles : 0..MaxRunItems,
          ranked : 0..MaxRunItems, written : BOOLEAN] :
     /\ l.newsletters = 0 => l.articles = 0
     /\ l.unique_articles <= l.articles
     /\ l.articles > 0 => l.unique_articles > 0
     /\ l.filtered_articles <= l.unique_articles
     /\ l.ranked <= l.filtered_articles
     /\ l.filtered_articles = 0 => ~l.written}

InitRuns ==
  /\ pc = "idle"
  /\ input = <<>>
  /\ output = <<>>
  /\ output2 = <<>>
  /\ RunIdle
  /\ \E email_address \in EnvironmentValues \cup {"reader@yahoo.com"},
        email_password \in EnvironmentValues \cup {"app-password"} :
       config = get_config(email_address, email_password)

\* A run that starts when no other run is in progress and ends; input keeps
\* the lengths the run saw and output2 the record it found
RunDigest ==
  /\ pc \in {"idle", "done"}
  /\ \E lengths \in RunLengths :
       LET run == process_and_send_digest(last_run_data, config, lengths)
       IN  /\ input' = lengths
           /\ last_run_data' = run.record
           /\ returned' = run.returned
  /\ output2' = last_run_data
  /\ pc' = "done"
  /\ UNCHANGED <<output, run_newsletters, run_fetched, run_articles, db,
                 run_unique_articles, ranker_input, run_source_scores,
                 ranker_output, run_categorized_articles, digest_file, sent,
                 mail, calls, config, threads, run_read_urls>>

NextRuns == RunDigest

SpecRuns == InitRuns /\ [][NextRuns]_vars

\* What the latest run did: the stage at which it ended and the numbers of
\* newsletters and articles it processed
LatestRun ==
  IF CredentialsUnset
  THEN [status |-> "Error", newsletter_count |-> 0, article_count |-> 0]
  ELSE IF input.newsletters = 0
  THEN [status |-> "No newsletters found", newsletter_count |-> 0,
        article_count |-> 0]
  ELSE IF input.articles = 0
  THEN [status |-> "No articles extracted",
        newsletter_count |-> input.newsletters, article_count |-> 0]
  ELSE IF input.filtered_articles = 0
  THEN [status |-> "No articles after filtering",
        newsletter_count |-> input.newsletters, article_count |-> 0]
  ELSE [status |-> IF input.written THEN "Success" ELSE "Error",
        newsletter_count |-> input.newsletters,
        article_count |-> input.ranked]

----------------------------------------------------------------------------
(* api_trigger and the scheduler: the threads that run                     *)
(* process_and_send_digest                                                 *)

\* A thread that runs process_and_send_digest(days_back): started by
\* api_trigger ("manual") or by the job daily_digest ("scheduled"); at is
\* "started" until the thread executes its first statement
Execution(source, days_back, at) ==
  [source |-> source, days_back |-> days_back, at |-> at]

\* days_back of the requests
DaysBackValues == {1, 7}

MaxThreads == 2

Without(running, k) ==
  [i \in 1..(Len(running) - 1) |-> IF i < k THEN running[i] ELSE running[i + 1]]

InitTrigger ==
  /\ pc = "serving"
  /\ input = <<>>
  /\ output = <<>>
  /\ output2 = <<>>
  /\ PipelineIdle

\* POST /api/trigger: a thread is started for every request, whatever runs
\* already; output is the response
api_trigger ==
  /\ pc = "serving"
  /\ Len(threads) < MaxThreads
  /\ \E days_back \in DaysBackValues :
       threads' = Append(threads, Execution("manual", days_back, "started"))
  /\ output' = [success |-> TRUE, message |-> "Digest generation started"]
  /\ UNCHANGED <<pc, input, output2, run_newsletters, run_fetched, run_articles,
                 db, run_unique_articles, ranker_input, run_source_scores,
                 ranker_output, run_categorized_articles, digest_file, sent,
                 last_run_data, mail, calls, returned, config,
                 run_read_urls>>

\* The cron trigger of the job daily_digest fires: the scheduler runs the job
\* in a thread of its pool unless an instance of the job is still running
\* (max_instances is 1)
daily_digest ==
  /\ pc = "serving"
  /\ Len(threads) < MaxThreads
  /\ ~\E k \in 1..Len(threads) : threads[k].source = "scheduled"
  /\ threads' = Append(threads, Execution("scheduled", 1, "started"))
  /\ UNCHANGED <<pc, input, output, output2, run_newsletters, run_fetched,
                 run_articles, db, run_unique_articles, ranker_input,
                 run_source_scores, ranker_output, run_categorized_articles,
                 digest_file, sent, last_run_data, mail, calls, returned, config,
                 run_read_urls>>

\* A thread executes the first statements of process_and_send_digest
ThreadBegins ==
  /\ \E k \in 1..Len(threads) :
       /\ threads[k].at = "started"
       /\ threads' = [threads EXCEPT ![k].at = "running"]
  /\ last_run_data' = update_status(last_run_data, "Warming up", 1)
  /\ UNCHANGED <<pc, input, output, output2, run_newsletters, run_fetched,
                 run_articles, db, run_unique_articles, ranker_input,
                 run_source_scores, ranker_output, run_categorized_articles,
                 digest_file, sent, mail, calls, returned, config,
                 run_read_urls>>

\* A thread reaches a return of process_and_send_digest and writes the
\* status of its ending
ThreadReturns ==
  /\ \E k \in 1..Len(threads) :
       /\ threads[k].at = "running"
       /\ threads' = Without(threads, k)
  /\ \E status \in {"Success", "No newsletters found", "Error"} :
       /\ last_run_data' =
            [last_run_data EXCEPT !.status = status,
                                  !.step = IF status = "Success" THEN 9 ELSE 0]
       /\ returned' = IF status = "Success" THEN "True" ELSE "False"
  /\ UNCHANGED <<pc, input, output, output2, run_newsletters, run_fetched,
                 run_articles, db, run_unique_articles, ranker_input,
                 run_source_scores, ranker_output, run_categorized_articles,
                 digest_file, sent, mail, calls, config, run_read_urls>>

NextTrigger ==
  \/ api_trigger
  \/ daily_digest
  \/ ThreadBegins
  \/ ThreadReturns

SpecTrigger == InitTrigger /\ [][NextTrigger]_vars

\* C20 (serialized runs): at no time are two executions of
\* process_and_send_digest in progress; a manual trigger that arrives during
\* a run is rejected or queued and not started
C20_AtMostOneRunInProgress ==
  Cardinality({k \in 1..Len(threads) : threads[k].at = "running"}) <= 1

----------------------------------------------------------------------------
(* Properties of a run: read articles                                      *)

\* The URLs of the entries of the digest file
DigestUrls ==
  UNION {UNION {{entry.url : entry \in Range(section.entries)} :
                  section \in Range(digest_file[d].sections)} :
           d \in 1..Len(digest_file)}

\* C21 (read filter): with persistence available, no article whose url is
\* among the read URLs persistence returned is passed to deduplication or
\* appears in a later stage or in the digest
C21_ReadArticlesRemovedBeforeDedup ==
  db =>
    \A url \in Range(run_read_urls) :
      /\ url \notin Range(Urls(run_articles))
      /\ url \notin Range(Urls(run_unique_articles))
      /\ url \notin Range(Urls(ranker_output))
      /\ url \notin Range(Urls(Bucketed(run_categorized_articles, 1)))
      /\ url \notin DigestUrls

\* A digest was written in a run that had requested a URL persistence
\* reported as read
C21_Witness ==
  /\ pc = "done"
  /\ db
  /\ digest_file # <<>>
  /\ run_read_urls # <<>>
  /\ \E url \in Range(run_read_urls) : url \in Range(run_fetched)
  /\ "deduplicate_articles" \in Range(calls)

----------------------------------------------------------------------------
(* ArticleSummarizer.summarize_all_articles on its own                     *)

SummaryArticle(url, title, text) ==
  [url |-> url, title |-> title, text |-> text, extraction_success |-> TRUE,
   newsletter_sender |-> SenderNYT, newsletter_subject |-> <<"M","o","r","n","i","n","g"," ","B","r","i","e","f","i","n","g">>]

\* Articles with two sentences, with an empty text, with a line break and no
\* full stop, and one that has a summary already
SummaryArticlePool ==
  {SummaryArticle(<<"h","t","t","p","s",":","/","/","e",".","e","x","a","m","p","l","e","/","g","o","o","d">>, <<"S","e","n","a","t","e"," ","V","o","t","e"," ","D","e","l","a","y","e","d"," ","U","n","t","i","l"," ","F","r","i","d","a","y">>,
                  <<"T","h","e"," ","c","o","m","m","i","t","t","e","e"," ","p","o","s","t","p","o","n","e","d"," ","t","h","e"," ","v","o","t","e","."," ","M","e","m","b","e","r","s"," ","r","e","t","u","r","n"," ","o","n"," ","F","r","i","d","a","y",".">>),
   SummaryArticle(<<"h","t","t","p","s",":","/","/","e",".","e","x","a","m","p","l","e","/","b","l","a","n","k">>, <<"M","a","r","k","e","t","s"," ","C","l","o","s","e"," ","H","i","g","h","e","r"," ","A","g","a","i","n">>, <<>>),
   SummaryArticle(<<"h","t","t","p","s",":","/","/","e",".","e","x","a","m","p","l","e","/","l","i","n","e","s">>, <<"R","a","t","e","s"," ","R","i","s","e"," ","A","s"," ","I","n","f","l","a","t","i","o","n"," ","P","e","r","s","i","s","t","s">>,
                  <<"R","a","t","e","s"," ","r","i","s","e","\n","a","g","a","i","n">>),
   WithSummary(SummaryArticle(<<"h","t","t","p","s",":","/","/","e",".","e","x","a","m","p","l","e","/","o","l","d">>, <<"S","t","o","r","m"," ","C","l","o","s","e","s"," ","C","o","a","s","t","a","l"," ","R","o","a","d","s">>,
                              <<"R","o","a","d","s"," ","a","r","e"," ","c","l","o","s","e","d","."," ","C","r","e","w","s"," ","a","r","e"," ","o","u","t",".">>),
               <<"W","r","i","t","t","e","n"," ","e","a","r","l","i","e","r",".">>)}

MaxSummaryArticles == 2

InitSummarize ==
  /\ pc = "start"
  /\ \E articles \in SeqsUpTo(SummaryArticlePool, MaxSummaryArticles),
        use_ai \in BOOLEAN :
       \E ai_responses \in [1..Len(articles) -> AIResponses] :
         input = [articles |-> articles, use_ai |-> use_ai,
                  ai_responses |-> ai_responses]
  /\ output = <<>>
  /\ output2 = <<>>
  /\ PipelineIdle

\* summarize_all_articles(articles) of a summarizer built with or without an
\* API key
SummarizeAll ==
  /\ pc = "start"
  /\ output' = summarize_all_articles(input.articles, input.use_ai, input.ai_responses)
  /\ pc' = "summarized"
  /\ UNCHANGED <<input, output2>>
  /\ UNCHANGED pipeline_vars

NextSummarize == SummarizeAll

SpecSummarize == InitSummarize /\ [][NextSummarize]_vars

\* C22 (summaries): after summarize_all_articles every article has a summary
\* string, with or without an API key and when every AI call fails; the list
\* holds the same articles in the same order, and an article that had a
\* summary keeps it
C22_EveryArticleSummarized ==
  pc = "summarized" =>
    /\ Len(output) = Len(input.articles)
    /\ \A i \in 1..Len(output) :
         /\ "summary" \in DOMAIN output[i]
         /\ output[i].summary \in Seq(STRING)
         /\ WithoutSummary(output[i]) = WithoutSummary(input.articles[i])
         /\ "summary" \in DOMAIN input.articles[i] =>
              output[i].summary = input.articles[i].summary

\* With an API key every call failed; an article with an empty text and one
\* that had a summary were in the list
C22_Witness ==
  /\ pc = "summarized"
  /\ input.use_ai
  /\ Len(output) = 2
  /\ \A i \in 1..2 : ~input.ai_responses[i].ok
  /\ \E i \in 1..2 : input.articles[i].text = <<>> /\ output[i].summary # <<>>
  /\ \E i \in 1..2 : "summary" \in DOMAIN input.articles[i]

----------------------------------------------------------------------------
(* Properties of a run: the fields of an article                           *)

\* The articles the lists of the run hold
ArticlesOfRun ==
  Range(run_articles) \cup Range(run_unique_articles) \cup Range(ranker_input)
    \cup Range(ranker_output) \cup Range(Bucketed(run_categorized_articles, 1))

FieldsKept ==
  /\ pc = "extract" =>
       \E web \in WebChoices :
         \A article \in Range(run_articles') :
           LET article_data == extract_article_content(article.url, web[article.url])
           IN  /\ article.url = article_data.url
               /\ article.title = article_data.title
               /\ article.text = article_data.text
  /\ pc # "extract" =>
       \A later \in ArticlesOfRun' :
         /\ \E article \in ArticlesOfRun : article.url = later.url
         /\ \A article \in ArticlesOfRun :
              article.url = later.url =>
                \A f \in DOMAIN article \cap DOMAIN later : later[f] = article[f]
  /\ \A d \in 1..Len(digest_file') :
       \A section \in Range(digest_file'[d].sections) :
         \A entry \in Range(section.entries) :
           \E article \in ArticlesOfRun :
             article.url = entry.url /\ article.title = entry.title

\* C23 (frame): from the record the fetcher returns until the end of the run
\* no stage changes the url, the title or the text of an article; a stage
\* only adds fields, and the digest shows the url and title unchanged
C23_UrlTitleTextNeverChanged == [][FieldsKept]_vars

\* A run ended with a digest whose articles carry a summary next to their
\* text, after articles had been removed on the way
C23_Witness ==
  /\ pc = "done"
  /\ digest_file # <<>>
  /\ Len(run_unique_articles) >= 2
  /\ Len(run_unique_articles) < Len(run_fetched)
  /\ ranker_input # ranker_output
  /\ \A article \in Range(run_unique_articles) :
       "summary" \in DOMAIN article /\ article.text # <<>>

----------------------------------------------------------------------------
(* Properties of deduplicate_articles: the greedy scan                     *)

\* The positions of the input retained among the first i: a position is
\* retained unless an article retained before it matches its article
RECURSIVE RetainedAmong(_)
RetainedAmong(i) ==
  IF i = 0 THEN {}
  ELSE LET before == RetainedAmong(i - 1)
       IN  IF \E j \in before : IsDup(input[i], input[j])
           THEN before ELSE before \cup {i}

\* The articles at the positions in K, in the order of the input
AtPositions(K) ==
  [n \in 1..Cardinality(K) |->
     input[CHOOSE i \in K : Cardinality({j \in K : j <= i}) = n]]

\* C24 (greedy scan): an input article is dropped if and only if an article
\* retained before it matches it (title similarity above 0.6, or above 0.3
\* with content similarity above the threshold); an article that matches only
\* earlier articles that were dropped is retained
C24_GreedyAgainstRetainedOnly ==
  pc = "deduped" => output = AtPositions(RetainedAmong(Len(input)))

\* The third article matches the second and not the first, the second was
\* dropped for matching the first, and the third is retained
C24_Witness ==
  /\ pc = "deduped"
  /\ Len(input) = 3
  /\ IsDup(input[2], input[1])
  /\ IsDup(input[3], input[2])
  /\ ~IsDup(input[3], input[1])
  /\ output = <<input[1], input[3]>>

----------------------------------------------------------------------------
(* Properties of a pipeline run: the end of a run whose digest was saved   *)

\* C25 (saved digest means Success): once a run has generated the digest
\* HTML and written it to the digest file, it ends with the Success status,
\* step 9, no error message, and returns True, whether or not send_digest
\* could send the email
C25_SavedDigestEndsInSuccess ==
  digest_file # <<>> =>
    /\ pc = "done"
    /\ last_run_data.status = "Success"
    /\ last_run_data.step = 9
    /\ last_run_data.error = "None"
    /\ returned = "True"

\* A run that saved its digest, called send_digest and sent no email
C25_Witness ==
  /\ pc = "done"
  /\ digest_file # <<>>
  /\ calls[Len(calls)] = "send_digest"
  /\ sent = <<>>
  /\ last_run_data.status = "Success"

----------------------------------------------------------------------------
(* Properties of a pipeline run: the check after deduplication             *)

\* C26 (deduplication never empties): deduplicate_articles keeps the first
\* article of every non-empty list, so a run that has passed the 'No
\* articles extracted' check goes on to the junk filter with at least one
\* article, and no run ends with the status 'No unique articles'
C26_NoUniqueArticlesUnreachable ==
  /\ last_run_data.status # "No unique articles"
  /\ "deduplicate_articles" \in Range(calls) =>
       /\ pc # "dedup"
       /\ run_articles # <<>>
  /\ pc = "filter_junk" =>
       /\ calls[Len(calls)] = "deduplicate_articles"
       /\ run_unique_articles # <<>>
       /\ run_unique_articles[1] = run_articles[1]

\* Deduplication has just dropped an article of the run and kept another
C26_Witness ==
  /\ pc = "filter_junk"
  /\ calls # <<>> /\ calls[Len(calls)] = "deduplicate_articles"
  /\ run_unique_articles # <<>>
  /\ Len(run_unique_articles) < Len(run_articles)

----------------------------------------------------------------------------
(* The table article_interactions (src/supabase_db.py) and the handlers    *)
(* api_vote and api_mark_read (src/app.py)                                 *)

\* A row of article_interactions
InteractionRow(article_url, article_title, article_source, vote, is_read) ==
  [article_url |-> article_url, article_title |-> article_title,
   article_source |-> article_source, vote |-> vote, is_read |-> is_read]

\* The first row with the URL in a one-element sequence, <<>> for None;
\* fails: the request to the database raises, and None is returned
get_interaction(table, article_url, fails) ==
  IF fails THEN <<>>
  ELSE Prefix(SelectSeq(table, LAMBDA row : row.article_url = article_url), 1)

\* table('article_interactions').upsert(data, on_conflict='article_url')
upsert_interaction(table, data) ==
  IF \E k \in 1..Len(table) : table[k].article_url = data.article_url
  THEN [k \in 1..Len(table) |->
          IF table[k].article_url = data.article_url THEN data ELSE table[k]]
  ELSE Append(table, data)

save_interaction(table, article_url, article_title, article_source, vote, is_read, fails) ==
  LET data == InteractionRow(article_url, article_title, article_source, vote, is_read)
  IN  IF fails THEN [success |-> FALSE, table |-> table]
      ELSE [success |-> TRUE, table |-> upsert_interaction(table, data)]

\* update({'vote': vote}).eq('article_url', article_url)
update_vote(table, article_url, vote, fails) ==
  IF fails THEN [success |-> FALSE, table |-> table]
  ELSE [success |-> TRUE,
        table |-> [k \in 1..Len(table) |->
                     IF table[k].article_url = article_url
                     THEN [table[k] EXCEPT !.vote = vote] ELSE table[k]]]

\* update({'is_read': True}).eq('article_url', article_url)
mark_as_read(table, article_url, fails) ==
  IF fails THEN [success |-> FALSE, table |-> table]
  ELSE [success |-> TRUE,
        table |-> [k \in 1..Len(table) |->
                     IF table[k].article_url = article_url
                     THEN [table[k] EXCEPT !.is_read = TRUE] ELSE table[k]]]

\* The net score of every source with a vote: the key is the lowercased,
\* stripped article_source, rows with an empty key are left out
get_source_scores(table, fails) ==
  LET rows == SelectSeq(table, LAMBDA row : row.vote # 0)
      key(row) == Strip(Lower(row.article_source))
      sources == {key(rows[k]) : k \in 1..Len(rows)} \ {<<>>}
  IN  IF fails THEN <<>>
      ELSE [source \in sources |->
              SumOver([k \in 1..Len(rows) |->
                         IF key(rows[k]) = source THEN rows[k].vote ELSE 0],
                      1..Len(rows))]

\* POST /api/vote. database: whether Supabase is configured, the table and
\* whether the write raises; existing: what get_interaction returned
api_vote(data, database, existing) ==
  IF data.article_url = <<>> \/ data.vote \notin {-1, 0, 1}
  THEN [response |-> JsonResponse(FALSE, <<"I","n","v","a","l","i","d"," ","r","e","q","u","e","s","t"," ","d","a","t","a">>, 400),
        table |-> database.table]
  ELSE IF ~database.configured
  THEN [response |-> JsonResponse(FALSE, <<"S","u","p","a","b","a","s","e"," ","n","o","t"," ","c","o","n","f","i","g","u","r","e","d">>, 500),
        table |-> database.table]
  ELSE LET saved == IF existing # <<>>
                    THEN update_vote(database.table, data.article_url, data.vote,
                                     database.fails)
                    ELSE save_interaction(database.table, data.article_url,
                                          data.article_title, data.article_source,
                                          data.vote, FALSE, database.fails)
       IN  IF saved.success
           THEN [response |-> JsonResponse(TRUE, <<"V","o","t","e"," ","s","a","v","e","d">>, 200),
                 table |-> saved.table]
           ELSE [response |-> JsonResponse(FALSE, <<"F","a","i","l","e","d"," ","t","o"," ","s","a","v","e"," ","v","o","t","e">>, 500),
                 table |-> saved.table]

\* POST /api/mark-read
api_mark_read(data, database, existing) ==
  IF data.article_url = <<>>
  THEN [response |-> JsonResponse(FALSE, <<"M","i","s","s","i","n","g"," ","a","r","t","i","c","l","e","_","u","r","l">>, 400),
        table |-> database.table]
  ELSE IF ~database.configured
  THEN [response |-> JsonResponse(FALSE, <<"S","u","p","a","b","a","s","e"," ","n","o","t"," ","c","o","n","f","i","g","u","r","e","d">>, 500),
        table |-> database.table]
  ELSE LET saved == IF existing # <<>>
                    THEN mark_as_read(database.table, data.article_url, database.fails)
                    ELSE save_interaction(database.table, data.article_url,
                                          data.article_title, data.article_source,
                                          0, TRUE, database.fails)
       IN  IF saved.success
           THEN [response |-> JsonResponse(TRUE, <<"M","a","r","k","e","d"," ","a","s"," ","r","e","a","d">>, 200),
                 table |-> saved.table]
           ELSE [response |-> JsonResponse(FALSE, <<"F","a","i","l","e","d"," ","t","o"," ","m","a","r","k"," ","a","s"," ","r","e","a","d">>, 500),
                 table |-> saved.table]

----------------------------------------------------------------------------
(* Votes cast in the digest and the vote learning of the next run          *)

MaxVotedArticles == 3

VoteSenders == {SenderNYT, SenderAxios, SenderDaily}

UrlDigits == <<"1", "2", "3", "4", "5">>

\* The articles of one sender that the digest shows
VotedArticles(sender) ==
  [k \in 1..MaxVotedArticles |->
     Article(<<"h","t","t","p","s",":","/","/","n","e","w","s",".","e","x","a","m","p","l","e","/","s","t","o","r","y","/">> \o <<UrlDigits[k]>>,
             FedTitle1, TextInflation, sender, SubjectDaily)]

\* The arguments of voteArticle(url, title, source, vote) in the digest, as
\* the script posts them to /api/vote
vote_request(article, vote) ==
  LET entry == digest_entry(article)
  IN  [article_url |-> entry.url, article_title |-> entry.title,
       article_source |-> entry.source, vote |-> vote]

InitVotes ==
  /\ pc = "digest"
  /\ \E sender \in VoteSenders, configured \in BOOLEAN :
       input = [sender |-> sender, articles |-> VotedArticles(sender),
                configured |-> configured]
  /\ output = [table |-> <<>>, response |-> JsonResponse(TRUE, <<>>, 200)]
  /\ output2 = <<>>
  /\ PipelineIdle

\* A vote button of the digest is pressed: output is the table and the
\* response of the request
DigestVote ==
  /\ pc = "digest"
  /\ \E k \in 1..Len(input.articles), vote \in {-1, 1},
        read_fails \in BOOLEAN, write_fails \in BOOLEAN :
       LET data == vote_request(input.articles[k], vote)
           database == [configured |-> input.configured, table |-> output.table,
                        fails |-> write_fails]
           result == api_vote(data, database,
                              get_interaction(output.table, data.article_url,
                                              read_fails))
       IN  output' = [table |-> result.table, response |-> result.response]
  /\ UNCHANGED <<pc, input, output2>>
  /\ UNCHANGED pipeline_vars

\* Step 3.6 of the next run on articles of the same sender: output2 is the
\* score mapping the run read and the articles it keeps
VoteLearning ==
  /\ pc = "digest"
  /\ \E fails \in BOOLEAN :
       LET source_scores == IF input.configured
                            THEN get_source_scores(output.table, fails) ELSE <<>>
       IN  output2' =
             [scores_read |-> input.configured /\ ~fails,
              source_scores |-> source_scores,
              unique_articles |->
                IF DOMAIN source_scores # {}
                THEN apply_vote_learning(input.articles, source_scores)
                ELSE input.articles]
  /\ pc' = "ranked"
  /\ UNCHANGED <<input, output>>
  /\ UNCHANGED pipeline_vars

NextVotes == DigestVote \/ VoteLearning

SpecVotes == InitVotes /\ [][NextVotes]_vars

\* The keys under which the stored votes are aggregated
VoteKeys ==
  {Strip(Lower(output.table[k].article_source)) : k \in 1..Len(output.table)}

\* The key the ranker looks up for the articles of the sender
RankerKey == Strip(Lower(input.sender))

\* The sum of the votes stored for the articles of the digest
NetVotes ==
  SumOver([k \in 1..Len(output.table) |-> output.table[k].vote],
          1..Len(output.table))

\* C27 (digest votes reach the ranker): every vote cast in the digest is
\* stored under the key the ranker looks up for the sender of the article,
\* and when the votes of the sender sum to -3 or less and the next run has
\* read the scores, it keeps no article of that sender
C27_DigestVotesReachRanker ==
  /\ VoteKeys \subseteq {RankerKey}
  /\ (pc = "ranked" /\ output2.scores_read /\ NetVotes <= -3) =>
       output2.unique_articles = <<>>

----------------------------------------------------------------------------
(* A vote request and a mark-read request for the same article, each in a  *)
(* thread of its own                                                       *)

InteractionUrl == <<"h","t","t","p","s",":","/","/","n","e","w","s",".","e","x","a","m","p","l","e","/","s","t","o","r","y","/","1">>

\* The rows article_interactions may hold for the article beforehand
PriorTables ==
  {<<>>} \cup
  {<<InteractionRow(InteractionUrl, FedTitle1, <<"D","a","i","l","y"," ","B","r","i","e","f">>, vote, is_read)>> :
     vote \in {-1, 0, 1}, is_read \in BOOLEAN}

\* A handler that has not started
Waiting == [at |-> "start", existing |-> <<>>,
            response |-> JsonResponse(FALSE, <<>>, 0)]

InitInteractions ==
  /\ pc = "requests"
  /\ \E vote \in {-1, 1}, configured \in BOOLEAN :
       input = [article_url |-> InteractionUrl, article_title |-> FedTitle1,
                article_source |-> <<"D","a","i","l","y"," ","B","r","i","e","f">>, vote |-> vote,
                configured |-> configured]
  /\ output \in PriorTables
  /\ output2 = [vote |-> Waiting, read |-> Waiting]
  /\ PipelineIdle

\* api_vote up to existing = db.get_interaction(article_url); a request that
\* finds no database is answered at once
VoteReads ==
  /\ output2.vote.at = "start"
  /\ \E fails \in BOOLEAN :
       output2' =
         IF input.configured
         THEN [output2 EXCEPT !.vote.at = "fetched",
                 !.vote.existing = get_interaction(output, input.article_url, fails)]
         ELSE [output2 EXCEPT !.vote.at = "done",
                 !.vote.response =
                    api_vote(input, [configured |-> FALSE, table |-> output,
                                     fails |-> FALSE], <<>>).response]
  /\ UNCHANGED <<pc, input, output>>
  /\ UNCHANGED pipeline_vars

\* api_vote from the branch on existing to the response
VoteWrites ==
  /\ output2.vote.at = "fetched"
  /\ \E fails \in BOOLEAN :
       LET result == api_vote(input, [configured |-> TRUE, table |-> output,
                                      fails |-> fails], output2.vote.existing)
       IN  /\ output' = result.table
           /\ output2' = [output2 EXCEPT !.vote.at = "done",
                                         !.vote.response = result.response]
  /\ UNCHANGED <<pc, input>>
  /\ UNCHANGED pipeline_vars

\* api_mark_read up to existing = db.get_interaction(article_url)
MarkReadReads ==
  /\ output2.read.at = "start"
  /\ \E fails \in BOOLEAN :
       output2' =
         IF input.configured
         THEN [output2 EXCEPT !.read.at = "fetched",
                 !.read.existing = get_interaction(output, input.article_url, fails)]
         ELSE [output2 EXCEPT !.read.at = "done",
                 !.read.response =
                    api_mark_read(input, [configured |-> FALSE, table |-> output,
                                          fails |-> FALSE], <<>>).response]
  /\ UNCHANGED <<pc, input, output>>
  /\ UNCHANGED pipeline_vars

\* api_mark_read from the branch on existing to the response
MarkReadWrites ==
  /\ output2.read.at = "fetched"
  /\ \E fails \in BOOLEAN :
       LET result == api_mark_read(input, [configured |-> TRUE, table |-> output,
                                           fails |-> fails], output2.read.existing)
       IN  /\ output' = result.table
           /\ output2' = [output2 EXCEPT !.read.at = "done",
                                         !.read.response = result.response]
  /\ UNCHANGED <<pc, input>>
  /\ UNCHANGED pipeline_vars

NextInteractions == VoteReads \/ VoteWrites \/ MarkReadReads \/ MarkReadWrites

SpecInteractions == InitInteractions /\ [][NextInteractions]_vars

\* C28 (vote and mark-read together): when the vote request and the
\* mark-read request for one article have both been answered with success,
\* the stored interaction of the article has the submitted vote and is
\* marked as read, in whatever order the steps of the two handlers were taken
C28_VoteAndReadBothStored ==
  ( /\ output2.vote.at = "done" /\ output2.vote.response.success
    /\ output2.read.at = "done" /\ output2.read.response.success ) =>
    \E k \in 1..Len(output) :
      /\ output[k].article_url = input.article_url
      /\ output[k].vote = input.vote
      /\ output[k].is_read

----------------------------------------------------------------------------
(* Runs of process_and_send_digest in threads of their own: the writes of  *)
(* each run to last_run_data and to the digest file, step by step          *)

\* The variables that the steps of a thread leave alone in this view
thread_rest == <<pc, input, output, output2, run_newsletters, run_fetched,
                 run_articles, db, run_unique_articles, ranker_input,
                 run_source_scores, ranker_output, run_categorized_articles,
                 mail, calls, config, run_read_urls>>

\* The emails kept in view
MaxSent == 1

\* The lists of articles a thread may reach step 4 with, by length
ThreadArticles ==
  [n \in 1..MaxRunItems |-> Prefix(VotedArticles(SenderDaily), n)]

\* The digest of each of these lists: summarized (which leaves the list as
\* long as it is), categorized and rendered
ThreadDigests ==
  [n \in 1..MaxRunItems |->
     generate_html_digest(categorize_articles(ThreadArticles[n]))]

\* The digest a thread renders from its own unique_articles, one of
\* ThreadArticles
rendered(unique_articles) == ThreadDigests[Len(unique_articles)]

\* Step 1 of a thread: the newsletters are fetched and counted, or the run
\* ends with 'No newsletters found'
RunFetches ==
  /\ \E k \in 1..Len(threads), found \in 0..MaxRunItems :
       /\ threads[k].at = "running"
       /\ IF found = 0
          THEN /\ last_run_data' =
                    [halted(last_run_data, "No newsletters found")
                       EXCEPT !.newsletter_count = 0]
               /\ returned' = "False"
               /\ threads' = Without(threads, k)
          ELSE /\ last_run_data' =
                    update_status([last_run_data EXCEPT !.newsletter_count = found],
                                  "Extracting the good stuff", 3)
               /\ returned' = returned
               /\ threads' = [threads EXCEPT ![k].at = "fetched"]
  /\ UNCHANGED <<digest_file, sent>>
  /\ UNCHANGED thread_rest

\* Steps 2 to 3.6 of a thread: the articles are extracted, filtered,
\* deduplicated and ranked, and the run ends with an empty-result status or
\* writes article_count; the thread keeps its unique_articles
RunCounts ==
  /\ \E k \in 1..Len(threads), n \in 1..MaxRunItems,
        ending \in {"No articles extracted", "No articles after filtering", "None"} :
       /\ threads[k].at = "fetched"
       /\ IF ending # "None"
          THEN /\ last_run_data' = halted(last_run_data, ending)
               /\ returned' = "False"
               /\ threads' = Without(threads, k)
          ELSE /\ last_run_data' =
                    update_status([last_run_data EXCEPT !.article_count = n],
                                  "AI magic happening", 7)
               /\ returned' = returned
               /\ threads' =
                    [threads EXCEPT ![k] =
                       [source |-> threads[k].source,
                        days_back |-> threads[k].days_back,
                        at |-> "counted",
                        unique_articles |-> ThreadArticles[n]]]
  /\ UNCHANGED <<digest_file, sent>>
  /\ UNCHANGED thread_rest

\* Steps 4 to 6.5 of a thread: the digest is rendered from the thread's
\* articles and written to the digest file
RunSaves ==
  /\ \E k \in 1..Len(threads) :
       /\ threads[k].at = "counted"
       /\ digest_file' = <<rendered(threads[k].unique_articles)>>
       /\ threads' = [threads EXCEPT ![k].at = "saved"]
  /\ last_run_data' = update_status(last_run_data, "Making it pretty", 9)
  /\ UNCHANGED <<sent, returned>>
  /\ UNCHANGED thread_rest

\* Step 7 of a thread and its return: the digest is sent or not, and the
\* run ends with Success
RunSucceeds ==
  /\ \E k \in 1..Len(threads), success \in BOOLEAN :
       /\ threads[k].at = "saved"
       /\ success => Len(sent) < MaxSent
       /\ sent' = IF success
                  THEN Append(sent, rendered(threads[k].unique_articles))
                  ELSE sent
       /\ threads' = Without(threads, k)
  /\ last_run_data' =
       [last_run_data EXCEPT !.status = "Success", !.step = 9, !.error = "None"]
  /\ returned' = "True"
  /\ UNCHANGED digest_file
  /\ UNCHANGED thread_rest

\* A statement of a thread raises: the handler writes the Error status
RunFails ==
  /\ \E k \in 1..Len(threads) :
       /\ threads[k].at \in {"running", "fetched", "counted", "saved"}
       /\ threads' = Without(threads, k)
  /\ last_run_data' =
       [last_run_data EXCEPT !.status = "Error", !.step = 0,
                             !.error = "exception"]
  /\ returned' = "False"
  /\ UNCHANGED <<digest_file, sent>>
  /\ UNCHANGED thread_rest

NextThreads ==
  \/ api_trigger
  \/ daily_digest
  \/ ThreadBegins
  \/ RunFetches
  \/ RunCounts
  \/ RunSaves
  \/ RunSucceeds
  \/ RunFails

SpecThreads == InitTrigger /\ [][NextThreads]_vars

\* C29 (count and digest agree): whenever no run is in progress and the
\* last-run status is Success, article_count is the number of articles of
\* the digest file saved at that time, however manually triggered and
\* scheduled runs were interleaved
C29_CountMatchesSavedDigest ==
  (threads = <<>> /\ last_run_data.status = "Success") =>
    /\ digest_file # <<>>
    /\ last_run_data.article_count = digest_file[1].total_articles

----------------------------------------------------------------------------
(* Properties of successive runs: the error message                        *)

\* C30 (error goes with the Error status): whenever no run is in progress,
\* last_run_data holds an error message if and only if its status is Error;
\* a run that ends with an empty-result status after a failed run leaves no
\* error message behind
C30_ErrorIffErrorStatus ==
  pc \in {"idle", "done"} =>
    (last_run_data.error # "None" <=> last_run_data.status = "Error")

====
